---- MODULE Spec2Model ----
(***************************************************************************)
(* Gene-information retrieval subsystem (src/day04/business.py): the       *)
(* GeneCache key-value store backed by one JSON document, the four source  *)
(* adapters, and the resolver get_gene_data.                               *)
(*                                                                         *)
(* Representation of Python values:                                        *)
(*   - a gene symbol (and a cache key) is a sequence of characters, so     *)
(*     that str.upper() and str.strip() are computed character by          *)
(*     character;                                                          *)
(*   - every other string is a TLA+ string, None is the value None below;  *)
(*   - a dict is a function from field names to values;                    *)
(*   - a dict object lives in the heap and is referred to by its object    *)
(*     id, since get_gene_data mutates a cached dict in place and returns  *)
(*     references to dicts the store holds; a stored value that is not a   *)
(*     dict (a JSON string found in the document) lives there as well.     *)
(***************************************************************************)
EXTENDS Integers, Sequences, FiniteSets, TLC

VARIABLES
    doc,      \* the backing JSON document (cache.json)
    heap,     \* object id -> value, the objects alive
    inst,     \* GeneCache instance -> [live, isdict, data: key -> object id]
    now,      \* int(time.time())
    prev,     \* the operation before the last one, and the object it returned
    last      \* the last operation: what was called, what it returned

vars == <<doc, heap, inst, now, prev, last>>

-----------------------------------------------------------------------------
(* Bounds of the model *)

MaxOps == 2
MaxTime == 1

-----------------------------------------------------------------------------
(* Strings *)

\* Python None (JSON null) in a string-typed position.
None == "None"

\* Python truthiness of an optional string: None and "" are falsy.
Truthy(x) == x # None /\ x # ""

\* str.upper() on one character.
UpperChar(c) ==
    CASE c = "a" -> "A"
      [] c = "b" -> "B"
      [] OTHER -> c

\* Upper without its effect: the symbol is left in the case it was typed in.
Upper_asTyped(s) == s

\* str.upper(): character by character.
Upper(s) == [i \in 1..Len(s) |-> UpperChar(s[i])]

\* str.lower() on one character.
LowerChar(c) ==
    CASE c = "A" -> "a"
      [] c = "B" -> "b"
      [] OTHER -> c

\* str.lower(): character by character.
Lower(s) == [i \in 1..Len(s) |-> LowerChar(s[i])]

IsSpace(c) == c = " "

RECURSIVE LStrip(_)
LStrip(s) == IF s # <<>> /\ IsSpace(Head(s)) THEN LStrip(Tail(s)) ELSE s

RECURSIVE RStrip(_)
RStrip(s) ==
    IF s # <<>> /\ IsSpace(s[Len(s)]) THEN RStrip(SubSeq(s, 1, Len(s) - 1)) ELSE s

\* str.strip(): removes leading and trailing whitespace.
Strip(s) == RStrip(LStrip(s))

-----------------------------------------------------------------------------
(* Dicts and the heap *)

\* The empty dict {} (and the empty key -> object map).
EmptyDict == [f \in {} |-> None]

\* dict.get(f): the value under f, None when f is not a key.
DictGet(d, f) == IF f \in DOMAIN d THEN d[f] ELSE None

\* {**d, **e}: the entries of e override those of d.
Merge(d, e) == e @@ d

\* The element of a one-element set. Only({e(x) : x \in {v}}) is e with x
\* bound to the value of v, which is then computed once however often e
\* refers to it.
Only(S) == CHOOSE x \in S : TRUE

\* No object: what a function returning None returns in an object position.
NoObj == 0

\* The id a newly created dict object gets: the first one not in use.
NewOid(h) == CHOOSE o \in 1..(Cardinality(DOMAIN h) + 1) : o \notin DOMAIN h

\* The objects a GeneCache's _data refers to.
Stored(data) == {data[k] : k \in DOMAIN data}

\* Reference counting: a dict nobody refers to any more is freed. The roots are
\* the dicts held by the live stores and the records the caller was handed by
\* the last two operations.
Collect(h, stores, refs) ==
    LET roots == UNION {Stored(stores[i].data) : i \in DOMAIN stores} \cup refs
    IN  [o \in (DOMAIN h) \cap roots |-> h[o]]

-----------------------------------------------------------------------------
(* GeneCache: src/day04/business.py, lines 28-73.                           *)
(* The operations work on a context c: the heap, the instance's _data       *)
(* (isdict: whether _data is a dict; data: its entries when it is), the     *)
(* document, the clock, wr (for each write of the document still to come,   *)
(* how it will end), io, the trace of what has been done so far (the calls  *)
(* of GeneCache.get and GeneCache.set, the calls of the adapters, the       *)
(* requests sent and the accesses to the file system), and exc, the         *)
(* exception that leaves the operation (None when it returns).              *)

\* A JSON string as the value of an entry of the document: json.load returns
\* whatever the document holds, and an entry need not be an object. The string
\* is kept in the heap under the one name "str", which no dict of the program
\* has as a field.
JsonText(s) == "str" :> s

\* isinstance(val, dict)
IsDict(val) == "str" \notin DOMAIN val

\* `not val` for a stored value: the empty dict and the empty string are falsy.
Falsy(val) == val = EmptyDict \/ val = JsonText("")

\* The document as json.dump writes it: the whole of _data, every key with the
\* value of its entry.
Dump(h, data) == [k \in DOMAIN data |-> h[data[k]]]

\* json.load of a document holding the mapping m: one new object per entry.
\* Returns the heap and _data.
RECURSIVE LoadEntries(_, _, _)
LoadEntries(h, data, m) ==
    IF DOMAIN m \subseteq DOMAIN data THEN [heap |-> h, data |-> data]
    ELSE LET k == CHOOSE x \in DOMAIN m : x \notin DOMAIN data
             o == NewOid(h)
         IN  LoadEntries((o :> m[k]) @@ h, (k :> o) @@ data, m)

\* How a write of the document ends: it succeeds; open() fails (the path is
\* not writable) and the document stays as it was; or open() has truncated the
\* document and json.dump fails (disk full, a value that cannot be
\* serialised), which leaves a document that cannot be parsed.
WriteOK == "ok"
OpenFails == "open fails"
DumpFails == "dump fails"
WriteEnds == {WriteOK, OpenFails, DumpFails}

\* The document left by a write that failed after open(path, "w"): empty or
\* cut short, not parseable.
Truncated == [kind |-> "corrupt", data |-> EmptyDict]

\* _save that updates the document entry by entry instead of rewriting it:
\* what the document held under other keys stays.
GeneCache_save_update(c) ==
    IF Head(c.wr) = WriteOK
    THEN [c EXCEPT !.doc = [kind |-> "object",
                            data |-> Dump(c.heap, c.data) @@ c.doc.data],
                   !.io = Append(c.io, "write"), !.wr = Tail(c.wr)]
    ELSE IF Head(c.wr) = OpenFails
    THEN [c EXCEPT !.io = Append(c.io, "write_failed"), !.wr = Tail(c.wr)]
    ELSE [c EXCEPT !.doc = Truncated,
                   !.io = Append(c.io, "write_failed"), !.wr = Tail(c.wr)]

\* GeneCache._save (lines 67-73): rewrite the whole document; a failure is
\* swallowed. When open() fails (line 69) the document is left as it was; when
\* json.dump fails (line 70) the document has already been truncated.
GeneCache_save(c) ==
    IF Head(c.wr) = WriteOK
    THEN [c EXCEPT !.doc = [kind |-> "object", data |-> Dump(c.heap, c.data)],
                   !.io = Append(c.io, "write"), !.wr = Tail(c.wr)]
    ELSE IF Head(c.wr) = OpenFails
    THEN [c EXCEPT !.io = Append(c.io, "write_failed"), !.wr = Tail(c.wr)]
    ELSE [c EXCEPT !.doc = Truncated,
                   !.io = Append(c.io, "write_failed"), !.wr = Tail(c.wr)]

\* GeneCache._load (lines 35-44): a missing document and an unreadable or
\* corrupt one both give an empty store; no exception leaves it. Line 41 takes
\* whatever value the document parses to: an object gives the dict of its
\* entries, any other JSON value (a list, null, a string, a number: kind
\* "value") becomes _data as it is, which is then not a dict.
GeneCache_load(c) ==
    IF c.doc.kind = "missing"
    THEN [c EXCEPT !.data = EmptyDict, !.isdict = TRUE, !.io = Append(c.io, "exists")]
    ELSE IF c.doc.kind = "corrupt"
    THEN [c EXCEPT !.data = EmptyDict, !.isdict = TRUE,
                   !.io = c.io \o <<"exists", "read">>]
    ELSE IF c.doc.kind = "value"
    THEN [c EXCEPT !.data = EmptyDict, !.isdict = FALSE,
                   !.io = c.io \o <<"exists", "read">>]
    ELSE LET l == LoadEntries(c.heap, EmptyDict, c.doc.data)
         IN  [c EXCEPT !.heap = l.heap, !.data = l.data, !.isdict = TRUE,
                       !.io = c.io \o <<"exists", "read">>]

\* DEFAULT_CACHE_PATH (line 24) and two paths a caller may pass whose parent
\* cannot be made a directory: notes.txt is a regular file.
DEFAULT_CACHE_PATH == "cache.json"
UnderFile == "notes.txt/cache.json"
BelowFile == "notes.txt/sub/cache.json"

\* path.parent.mkdir(parents=True, exist_ok=True) (line 31): None when the
\* parent is or becomes a directory, otherwise the exception raised. The
\* parent of the default path is the working directory.
MkdirError(path) ==
    IF path = UnderFile THEN "FileExistsError"
    ELSE IF path = BelowFile THEN "NotADirectoryError"
    ELSE None

\* GeneCache.__init__ (lines 29-33): create the parent directory, then load.
\* The mkdir of line 31 is outside any try: its failure leaves the constructor
\* and there is no instance. Every path on which an instance can be made is
\* the path of the one document of the model.
GeneCache_init(c, path) ==
    IF MkdirError(path) # None
    THEN [c EXCEPT !.io = Append(c.io, "mkdir"), !.exc = MkdirError(path)]
    ELSE GeneCache_load([c EXCEPT !.data = EmptyDict, !.isdict = TRUE,
                                  !.io = Append(c.io, "mkdir")])

\* A legacy entry: a dict with a raw `data` field and no `summary` field
\* (line 53).
IsLegacy(val) == IsDict(val) /\ "summary" \notin DOMAIN val /\ "data" \in DOMAIN val

\* get that returns None for a legacy entry and leaves it where it is
\* (lines 55-58 without the del and the _save).
GeneCache_get_keep(c, gene) ==
    LET key == Upper(gene)
        c1 == [c EXCEPT !.io = Append(c.io, "GeneCache.get")]
    IN  IF ~c.isdict
        THEN [c |-> [c1 EXCEPT !.exc = "AttributeError"], ret |-> NoObj]
        ELSE IF key \notin DOMAIN c.data \/ Falsy(c.heap[c.data[key]])
        THEN [c |-> c1, ret |-> NoObj]
        ELSE IF IsLegacy(c.heap[c.data[key]])
        THEN [c |-> c1, ret |-> NoObj]
        ELSE [c |-> c1, ret |-> c.data[key]]

\* get that trims the symbol as well: key = gene.strip().upper().
GeneCache_get_trim(c, gene) ==
    LET key == Upper(Strip(gene))
        c1 == [c EXCEPT !.io = Append(c.io, "GeneCache.get")]
    IN  IF ~c.isdict
        THEN [c |-> [c1 EXCEPT !.exc = "AttributeError"], ret |-> NoObj]
        ELSE IF key \notin DOMAIN c.data \/ Falsy(c.heap[c.data[key]])
        THEN [c |-> c1, ret |-> NoObj]
        ELSE IF IsLegacy(c.heap[c.data[key]])
        THEN [c |-> GeneCache_save(
                        [c1 EXCEPT !.data = [k \in (DOMAIN c.data) \ {key} |-> c.data[k]]]),
              ret |-> NoObj]
        ELSE [c |-> c1, ret |-> c.data[key]]

\* GeneCache.get (lines 46-60). The key is gene.upper(), nothing else. Returns
\* the context and ret, the stored object itself (NoObj for None). When _data
\* is not a dict, self._data.get of line 47 raises AttributeError (c.exc). A
\* stored value that is not a dict is returned as it is.
GeneCache_get(c, gene) ==
    LET key == Upper(gene)
        c1 == [c EXCEPT !.io = Append(c.io, "GeneCache.get")]
    IN  IF ~c.isdict
        THEN [c |-> [c1 EXCEPT !.exc = "AttributeError"], ret |-> NoObj]
        ELSE IF key \notin DOMAIN c.data \/ Falsy(c.heap[c.data[key]])
        THEN [c |-> c1, ret |-> NoObj]
        ELSE IF IsLegacy(c.heap[c.data[key]])
        THEN [c |-> GeneCache_save(
                        [c1 EXCEPT !.data = [k \in (DOMAIN c.data) \ {key} |-> c.data[k]]]),
              ret |-> NoObj]
        ELSE [c |-> c1, ret |-> c.data[key]]

\* set whose stamp wins over the value's own fetched_at:
\* {**value, "fetched_at": int(time.time())}.
GeneCache_set_stamp(c, gene, value) ==
    LET o == NewOid(c.heap)
        rec == Merge(value, "fetched_at" :> c.now)
    IN  IF ~c.isdict
        THEN [c EXCEPT !.io = Append(c.io, "GeneCache.set"), !.exc = "TypeError"]
        ELSE GeneCache_save([c EXCEPT !.heap = (o :> rec) @@ c.heap,
                                      !.data = (Upper(gene) :> o) @@ c.data,
                                      !.io = Append(c.io, "GeneCache.set")])

\* set that stores under the symbol as typed: self._data[gene] = entry.
GeneCache_set_asTyped(c, gene, value) ==
    LET o == NewOid(c.heap)
        rec == Merge("fetched_at" :> c.now, value)
    IN  IF ~c.isdict
        THEN [c EXCEPT !.io = Append(c.io, "GeneCache.set"), !.exc = "TypeError"]
        ELSE GeneCache_save([c EXCEPT !.heap = (o :> rec) @@ c.heap,
                                      !.data = (gene :> o) @@ c.data,
                                      !.io = Append(c.io, "GeneCache.set")])

\* set that takes the entry back when the document could not be written.
GeneCache_set_rollback(c, gene, value) ==
    LET o == NewOid(c.heap)
        rec == Merge("fetched_at" :> c.now, value)
    IN  IF ~c.isdict
        THEN [c EXCEPT !.io = Append(c.io, "GeneCache.set"), !.exc = "TypeError"]
        ELSE IF Head(c.wr) = WriteOK
        THEN GeneCache_save([c EXCEPT !.heap = (o :> rec) @@ c.heap,
                                      !.data = (Upper(gene) :> o) @@ c.data,
                                      !.io = Append(c.io, "GeneCache.set")])
        ELSE GeneCache_save([c EXCEPT !.io = Append(c.io, "GeneCache.set")])

\* GeneCache.set (lines 62-65): a new dict {"fetched_at": now, **value} under
\* gene.upper(), then the whole store is saved. When _data is not a dict the
\* item assignment of line 64 raises TypeError and nothing is saved.
GeneCache_set(c, gene, value) ==
    LET o == NewOid(c.heap)
        rec == Merge("fetched_at" :> c.now, value)
    IN  IF ~c.isdict
        THEN [c EXCEPT !.io = Append(c.io, "GeneCache.set"), !.exc = "TypeError"]
        ELSE GeneCache_save([c EXCEPT !.heap = (o :> rec) @@ c.heap,
                                      !.data = (Upper(gene) :> o) @@ c.data,
                                      !.io = Append(c.io, "GeneCache.set")])

-----------------------------------------------------------------------------
(* JSON values received from the upstream services *)

JNull == [t |-> "null"]
JStr(x) == [t |-> "str", s |-> x]
JNum == [t |-> "num"]
JList(xs) == [t |-> "list", xs |-> xs]
\* A JSON object: its entries in document order, each a key and a value. A key
\* is a field name or a gene symbol.
JDict(items) == [t |-> "dict", items |-> items]
Field(n) == [name |-> n]
GeneKey(g) == [gene |-> g]
Entry(k, v) == [k |-> k, v |-> v]

\* `k in d` for a JSON object d.
HasKey(d, k) == \E i \in 1..Len(d.items) : d.items[i].k = k

\* d[k] for a JSON object d that has the key k.
Lookup(d, k) == d.items[CHOOSE i \in 1..Len(d.items) : d.items[i].k = k].v

-----------------------------------------------------------------------------
(* Source adapters: src/day04/business.py, lines 76-281.                    *)
(* An adapter takes the response the service gives to its request and the   *)
(* I/O log, and returns its result and the log extended by what it did.     *)

\* fetch_gene_from_genecards (lines 76-104). resp: net (the request got a
\* response), ctype (its content type), body (the decoded JSON value, or
\* Undecodable). Raises RuntimeError on a network failure and on a body that
\* is not JSON; with a decodable body the payload is returned whatever the
\* content type is.
Undecodable == [t |-> "undecodable"]

\* "application/json" in content_type.lower() (line 95), for the content
\* types the model uses.
IsJsonType(ctype) == ctype \in {"application/json", "Application/JSON; charset=utf-8"}

\* The portal adapter as the specification words it: a response whose content
\* type is not JSON raises RuntimeError whatever its body is (lines 96-101
\* without the attempt to decode).
fetch_gene_from_genecards_strict(resp, io) ==
    LET io1 == io \o <<"fetch_gene_from_genecards", "GET genecards">> IN
    IF ~resp.net THEN [raised |-> TRUE, val |-> JNull, io |-> io1]
    ELSE IF ~IsJsonType(resp.ctype) THEN [raised |-> TRUE, val |-> JNull, io |-> io1]
    ELSE IF resp.body = Undecodable THEN [raised |-> TRUE, val |-> JNull, io |-> io1]
    ELSE [raised |-> FALSE, val |-> resp.body, io |-> io1]

fetch_gene_from_genecards(resp, io) ==
    LET io1 == io \o <<"fetch_gene_from_genecards", "GET genecards">> IN
    IF ~resp.net THEN [raised |-> TRUE, val |-> JNull, io |-> io1]
    ELSE IF ~IsJsonType(resp.ctype)
    THEN IF resp.body = Undecodable THEN [raised |-> TRUE, val |-> JNull, io |-> io1]
         ELSE [raised |-> FALSE, val |-> resp.body, io |-> io1]
    ELSE IF resp.body = Undecodable THEN [raised |-> TRUE, val |-> JNull, io |-> io1]
    ELSE [raised |-> FALSE, val |-> resp.body, io |-> io1]

\* No symbol: None (or "") in a symbol-typed position; both are falsy.
NoSym == <<>>

\* ef_hash.get(f)[idx] if ef_hash and f in ef_hash and idx < len(ef_hash.get(f))
\* else None (lines 173-175); idx is the 1-based position here.
EfField(ef, f, idx) ==
    IF ef # JNull /\ f \in DOMAIN ef.m /\ idx <= Len(ef.m[f]) THEN ef.m[f][idx] ELSE None

\* fetch_details_via_ncbi that takes the first candidate with a symbol,
\* whether or not it is the gene asked for (line 171 as `if sym:`).
fetch_details_via_ncbi_first(gene, resp, io) ==
    LET io1 == io \o <<"fetch_details_via_ncbi", "GET ncbi_genes">>
        notfound == [found |-> FALSE, details |-> EmptyDict, io |-> io1]
        symOf(d) == IF Len(d) >= 1 THEN d[1] ELSE NoSym
        descOf(d) == IF Len(d) >= 2 THEN d[2] ELSE None
        matches == {i \in 1..Len(resp.displays) : symOf(resp.displays[i]) # NoSym}
    IN  IF ~resp.ok THEN notfound
        ELSE IF resp.displays = <<>> \/ resp.codes = <<>> THEN notfound
        ELSE IF matches = {} THEN notfound
        ELSE LET idx == CHOOSE i \in matches : \A j \in matches : i <= j
                 disp == resp.displays[idx]
             IN  [found |-> TRUE,
                  details |-> ("symbol" :> symOf(disp))
                              @@ ("description" :> descOf(disp))
                              @@ ("geneid" :> EfField(resp.ef, "GeneID", idx))
                              @@ ("chromosome" :> EfField(resp.ef, "chromosome", idx))
                              @@ ("map_location" :> EfField(resp.ef, "map_location", idx)),
                  io |-> io1]

\* fetch_details_via_ncbi (lines 141-191). resp: ok (the request succeeded and
\* the body parsed), codes, ef (JNull or [m |-> field -> list]), displays (a
\* list of [Symbol, description] rows). found = FALSE stands for
\* GeneNotFoundError, the only error it raises.
fetch_details_via_ncbi(gene, resp, io) ==
    LET io1 == io \o <<"fetch_details_via_ncbi", "GET ncbi_genes">>
        notfound == [found |-> FALSE, details |-> EmptyDict, io |-> io1]
        symOf(d) == IF Len(d) >= 1 THEN d[1] ELSE NoSym
        descOf(d) == IF Len(d) >= 2 THEN d[2] ELSE None
        matches == {i \in 1..Len(resp.displays) :
                        /\ symOf(resp.displays[i]) # NoSym
                        /\ Upper(symOf(resp.displays[i])) = Upper(gene)}
    IN  IF ~resp.ok THEN notfound
        ELSE IF resp.displays = <<>> \/ resp.codes = <<>> THEN notfound
        ELSE IF matches = {} THEN notfound
        ELSE LET idx == CHOOSE i \in matches : \A j \in matches : i <= j
                 disp == resp.displays[idx]
             IN  [found |-> TRUE,
                  details |-> ("symbol" :> symOf(disp))
                              @@ ("description" :> descOf(disp))
                              @@ ("geneid" :> EfField(resp.ef, "GeneID", idx))
                              @@ ("chromosome" :> EfField(resp.ef, "chromosome", idx))
                              @@ ("map_location" :> EfField(resp.ef, "map_location", idx)),
                  io |-> io1]

\* Whether int(geneid) succeeds.
IsInt(geneid) == geneid \in {"672", "999"}

\* fetch_summary_from_entrez that sends its request before it looks at the
\* identifier (lines 199-203 moved below line 208).
fetch_summary_from_entrez_eager(geneid, resp, io) ==
    LET io1 == io \o <<"fetch_summary_from_entrez", "GET esummary">>
        summary == IF Truthy(DictGet(resp.info, "summary"))
                   THEN DictGet(resp.info, "summary")
                   ELSE DictGet(resp.info, "Summary")
    IN  IF ~IsInt(geneid) THEN [val |-> None, io |-> io1]
        ELSE IF ~resp.ok THEN [val |-> None, io |-> io1]
        ELSE IF resp.uids = <<>> THEN [val |-> None, io |-> io1]
        ELSE IF Truthy(summary) THEN [val |-> summary, io |-> io1]
        ELSE [val |-> None, io |-> io1]

\* fetch_summary_from_entrez (lines 194-223). resp: ok, uids, info (the dict
\* under the first uid, EmptyDict when there is none). Returns the summary
\* string, or None; never raises.
fetch_summary_from_entrez(geneid, resp, io) ==
    LET io0 == Append(io, "fetch_summary_from_entrez")
        io1 == Append(io0, "GET esummary")
        summary == IF Truthy(DictGet(resp.info, "summary"))
                   THEN DictGet(resp.info, "summary")
                   ELSE DictGet(resp.info, "Summary")
    IN  IF ~IsInt(geneid) THEN [val |-> None, io |-> io0]
        ELSE IF ~resp.ok THEN [val |-> None, io |-> io1]
        ELSE IF resp.uids = <<>> THEN [val |-> None, io |-> io1]
        ELSE IF Truthy(summary) THEN [val |-> summary, io |-> io1]
        ELSE [val |-> None, io |-> io1]

\* fetch_gene_info_via_entrez without lines 248-249: an empty id list gives
\* a dict of empty fields instead of None.
fetch_gene_info_via_entrez_noids(gene, resp, io) ==
    LET io0 == io \o <<"fetch_gene_info_via_entrez", "GET esearch">>
        io1 == Append(io0, "GET esummary")
        name == IF "name" \in DOMAIN resp.info THEN resp.info["name"] ELSE NoSym
    IN  IF ~resp.sok THEN [some |-> FALSE, details |-> EmptyDict, io |-> io0]
        ELSE IF resp.ids = <<>>
        THEN [some |-> TRUE,
              details |-> ("symbol" :> gene) @@ ("geneid" :> None)
                          @@ ("chromosome" :> None) @@ ("map_location" :> None)
                          @@ ("description" :> None),
              io |-> io0]
        ELSE IF ~resp.iok THEN [some |-> FALSE, details |-> EmptyDict, io |-> io1]
        ELSE [some |-> TRUE,
              details |-> ("symbol" :> (IF name # NoSym THEN name ELSE gene))
                          @@ ("geneid" :> resp.ids[1])
                          @@ ("chromosome" :> DictGet(resp.info, "chromosome"))
                          @@ ("map_location" :> DictGet(resp.info, "maplocation"))
                          @@ ("description" :> DictGet(resp.info, "description")),
              io |-> io1]

\* fetch_gene_info_via_entrez (lines 226-281). resp: sok and ids (the
\* identifier search), iok and info (the summary request for ids[0]; info is
\* the dict under that id, EmptyDict when there is none). some = FALSE stands
\* for None; never raises.
fetch_gene_info_via_entrez(gene, resp, io) ==
    LET io0 == io \o <<"fetch_gene_info_via_entrez", "GET esearch">>
        io1 == Append(io0, "GET esummary")
        name == IF "name" \in DOMAIN resp.info THEN resp.info["name"] ELSE NoSym
    IN  IF ~resp.sok THEN [some |-> FALSE, details |-> EmptyDict, io |-> io0]
        ELSE IF resp.ids = <<>> THEN [some |-> FALSE, details |-> EmptyDict, io |-> io0]
        ELSE IF ~resp.iok THEN [some |-> FALSE, details |-> EmptyDict, io |-> io1]
        ELSE [some |-> TRUE,
              details |-> ("symbol" :> (IF name # NoSym THEN name ELSE gene))
                          @@ ("geneid" :> resp.ids[1])
                          @@ ("chromosome" :> DictGet(resp.info, "chromosome"))
                          @@ ("map_location" :> DictGet(resp.info, "maplocation"))
                          @@ ("description" :> DictGet(resp.info, "description")),
              io |-> io1]

-----------------------------------------------------------------------------
(* The resolver: get_gene_data, src/day04/business.py, lines 284-421.       *)

\* extract_summary that runs through the candidate's field names from the
\* last to the first (line 333 with the tuple reversed).
extract_summary_reversed(gc, gene_key) ==
    LET candidate ==
            IF HasKey(gc, GeneKey(gene_key)) THEN Lookup(gc, GeneKey(gene_key))
            ELSE IF gc.items # <<>> THEN gc.items[1].v
            ELSE JNull
        names == <<"summary", "GeneCards Summary", "description", "function">>
        hits == {i \in 1..Len(names) :
                    /\ HasKey(candidate, Field(names[i]))
                    /\ Lookup(candidate, Field(names[i])).t = "str"}
    IN  IF gc.t # "dict" THEN None
        ELSE IF HasKey(gc, Field("summary")) /\ Lookup(gc, Field("summary")).t = "str"
        THEN Lookup(gc, Field("summary")).s
        ELSE IF candidate.t # "dict" THEN None
        ELSE IF hits = {} THEN None
        ELSE Lookup(candidate, Field(names[CHOOSE i \in hits : \A j \in hits : i >= j])).s

\* The summary extracted from a portal payload (lines 317-336): None when
\* there is none.
extract_summary(gc, gene_key) ==
    LET candidate ==
            IF HasKey(gc, GeneKey(gene_key)) THEN Lookup(gc, GeneKey(gene_key))
            ELSE IF gc.items # <<>> THEN gc.items[1].v
            ELSE JNull
        names == <<"summary", "GeneCards Summary", "description", "function">>
        hits == {i \in 1..Len(names) :
                    /\ HasKey(candidate, Field(names[i]))
                    /\ Lookup(candidate, Field(names[i])).t = "str"}
    IN  IF gc.t # "dict" THEN None
        ELSE IF HasKey(gc, Field("summary")) /\ Lookup(gc, Field("summary")).t = "str"
        THEN Lookup(gc, Field("summary")).s
        ELSE IF candidate.t # "dict" THEN None
        ELSE IF hits = {} THEN None
        ELSE Lookup(candidate, Field(names[CHOOSE i \in hits : \A j \in hits : i <= j])).s

NcbiUrl(geneid) == "https://www.ncbi.nlm.nih.gov/gene/" \o geneid
GeneCardsUrl(symbol) == <<"https://www.genecards.org/cgi-bin/carddisp.pl?gene=">> \o symbol

\* lookup_details whose double miss is never an error: lines 349-357 applied
\* also when the portal gave no summary.
lookup_details_lenient(gene_key, env, lenient, io) ==
    Only({
        IF p1.found
        THEN [notfound |-> FALSE, details |-> p1.details,
              source |-> IF lenient THEN "genecards" ELSE "ncbi", io |-> p1.io]
        ELSE Only({
                 IF p2.some
                 THEN [notfound |-> FALSE, details |-> p2.details, source |-> "entrez",
                       io |-> p2.io]
                 ELSE [notfound |-> FALSE, details |-> EmptyDict,
                       source |-> "genecards", io |-> p2.io]
                 : p2 \in {fetch_gene_info_via_entrez(gene_key, env.entrez, p1.io)} })
        : p1 \in {fetch_details_via_ncbi(gene_key, env.ncbi, io)} })

\* lookup_details that tags a pass 1 match "genecards" whether or not the
\* portal gave a summary (line 341 as line 352).
lookup_details_tag(gene_key, env, lenient, io) ==
    Only({
        IF p1.found
        THEN [notfound |-> FALSE, details |-> p1.details,
              source |-> "genecards", io |-> p1.io]
        ELSE Only({
                 IF p2.some
                 THEN [notfound |-> FALSE, details |-> p2.details, source |-> "entrez",
                       io |-> p2.io]
                 ELSE [notfound |-> ~lenient, details |-> EmptyDict,
                       source |-> "genecards", io |-> p2.io]
                 : p2 \in {fetch_gene_info_via_entrez(gene_key, env.entrez, p1.io)} })
        : p1 \in {fetch_details_via_ncbi(gene_key, env.ncbi, io)} })
\* lookup_details that reports not-found whenever both passes found nothing,
\* with or without a portal summary (line 357 raising as line 348 does).
lookup_details_strict(gene_key, env, lenient, io) ==
    Only({
        IF p1.found
        THEN [notfound |-> FALSE, details |-> p1.details,
              source |-> IF lenient THEN "genecards" ELSE "ncbi", io |-> p1.io]
        ELSE Only({
                 IF p2.some
                 THEN [notfound |-> FALSE, details |-> p2.details, source |-> "entrez",
                       io |-> p2.io]
                 ELSE [notfound |-> TRUE, details |-> EmptyDict,
                       source |-> "genecards", io |-> p2.io]
                 : p2 \in {fetch_gene_info_via_entrez(gene_key, env.entrez, p1.io)} })
        : p1 \in {fetch_details_via_ncbi(gene_key, env.ncbi, io)} })

\* Lines 338-369: the structured lookups in order. pass 2 is asked only when
\* pass 1 raised GeneNotFoundError. lenient: the portal gave a summary, so a
\* double miss is no error (lines 349-357). Returns notfound (the resolver
\* raises GeneNotFoundError), details (EmptyDict for None) and source.
lookup_details(gene_key, env, lenient, io) ==
    Only({
        IF p1.found
        THEN [notfound |-> FALSE, details |-> p1.details,
              source |-> IF lenient THEN "genecards" ELSE "ncbi", io |-> p1.io]
        ELSE Only({
                 IF p2.some
                 THEN [notfound |-> FALSE, details |-> p2.details, source |-> "entrez",
                       io |-> p2.io]
                 ELSE [notfound |-> ~lenient, details |-> EmptyDict,
                       source |-> "genecards", io |-> p2.io]
                 : p2 \in {fetch_gene_info_via_entrez(gene_key, env.entrez, p1.io)} })
        : p1 \in {fetch_details_via_ncbi(gene_key, env.ncbi, io)} })

\* build_record without lines 416-418: the description of the details is the
\* summary whenever there are details, the portal summary only without them.
build_record_description(gene_key, details, source, summary, entrez_summary, t) ==
    LET has == details # EmptyDict
        symbol == IF has /\ details["symbol"] # NoSym THEN details["symbol"] ELSE gene_key
        geneid == IF has THEN details["geneid"] ELSE None
    IN  ("symbol" :> symbol)
        @@ ("summary" :> (IF has THEN details["description"]
                          ELSE IF Truthy(summary) THEN summary ELSE None))
        @@ ("geneid" :> geneid)
        @@ ("chromosome" :> (IF has THEN details["chromosome"] ELSE None))
        @@ ("map_location" :> (IF has THEN details["map_location"] ELSE None))
        @@ ("ncbi_url" :> (IF Truthy(geneid) THEN NcbiUrl(geneid) ELSE None))
        @@ ("genecards_url" :> GeneCardsUrl(symbol))
        @@ ("source" :> source)
        @@ ("fetched_at" :> t)
        @@ ("entrez_summary" :> entrez_summary)

\* build_record that names the record after the key, whatever symbol the
\* details carry (line 386 as `"symbol": gene_key`).
build_record_keysym(gene_key, details, source, summary, entrez_summary, t) ==
    LET has == details # EmptyDict
        geneid == IF has THEN details["geneid"] ELSE None
    IN  ("symbol" :> gene_key)
        @@ ("summary" :> (IF Truthy(summary) THEN summary
                          ELSE IF has THEN details["description"] ELSE None))
        @@ ("geneid" :> geneid)
        @@ ("chromosome" :> (IF has THEN details["chromosome"] ELSE None))
        @@ ("map_location" :> (IF has THEN details["map_location"] ELSE None))
        @@ ("ncbi_url" :> (IF Truthy(geneid) THEN NcbiUrl(geneid) ELSE None))
        @@ ("genecards_url" :> GeneCardsUrl(gene_key))
        @@ ("source" :> source)
        @@ ("fetched_at" :> t)
        @@ ("entrez_summary" :> entrez_summary)

\* build_record with the test of line 394 removed: the NCBI address is
\* formatted from whatever geneid holds, None included.
build_record_anyid(gene_key, details, source, summary, entrez_summary, t) ==
    LET has == details # EmptyDict
        symbol == IF has /\ details["symbol"] # NoSym THEN details["symbol"] ELSE gene_key
        geneid == IF has THEN details["geneid"] ELSE None
    IN  ("symbol" :> symbol)
        @@ ("summary" :> (IF Truthy(summary) THEN summary
                          ELSE IF has THEN details["description"] ELSE None))
        @@ ("geneid" :> geneid)
        @@ ("chromosome" :> (IF has THEN details["chromosome"] ELSE None))
        @@ ("map_location" :> (IF has THEN details["map_location"] ELSE None))
        @@ ("ncbi_url" :> NcbiUrl(geneid))
        @@ ("genecards_url" :> GeneCardsUrl(symbol))
        @@ ("source" :> source)
        @@ ("fetched_at" :> t)
        @@ ("entrez_summary" :> entrez_summary)

\* Lines 371-418: the normalized record built from the details, the portal
\* summary and the Entrez summary.
build_record(gene_key, details, source, summary, entrez_summary, t) ==
    LET has == details # EmptyDict
        symbol == IF has /\ details["symbol"] # NoSym THEN details["symbol"] ELSE gene_key
        geneid == IF has THEN details["geneid"] ELSE None
    IN  ("symbol" :> symbol)
        @@ ("summary" :> (IF Truthy(summary) THEN summary
                          ELSE IF has THEN details["description"] ELSE None))
        @@ ("geneid" :> geneid)
        @@ ("chromosome" :> (IF has THEN details["chromosome"] ELSE None))
        @@ ("map_location" :> (IF has THEN details["map_location"] ELSE None))
        @@ ("ncbi_url" :> (IF Truthy(geneid) THEN NcbiUrl(geneid) ELSE None))
        @@ ("genecards_url" :> GeneCardsUrl(symbol))
        @@ ("source" :> source)
        @@ ("fetched_at" :> t)
        @@ ("entrez_summary" :> entrez_summary)

\* cache_hit that stores the record again after every attempt, whether or
\* not the Entrez summary came (line 308 moved out of the `if entrez:`).
cache_hit_resave(c, gene_key, cached, env) ==
    IF IsDict(c.heap[cached]) /\ Truthy(DictGet(c.heap[cached], "geneid"))
       /\ DictGet(c.heap[cached], "entrez_summary") = None
    THEN Only({
             Only({
                 [c |-> GeneCache_set(
                            [c EXCEPT !.heap = (cached :> enriched) @@ c.heap,
                                      !.io = e.io],
                            gene_key, enriched),
                  outcome |-> "return", ret |-> cached]
                 : enriched \in {IF Truthy(e.val)
                                 THEN Merge(c.heap[cached], "entrez_summary" :> e.val)
                                 ELSE c.heap[cached]} })
             : e \in {fetch_summary_from_entrez(DictGet(c.heap[cached], "geneid"),
                                                env.summ, c.io)} })
    ELSE [c |-> c, outcome |-> "return", ret |-> cached]

\* cache_hit that stamps the record anew when it enriches it:
\* cached["fetched_at"] = int(time.time()) next to line 307.
cache_hit_restamp(c, gene_key, cached, env) ==
    IF IsDict(c.heap[cached]) /\ Truthy(DictGet(c.heap[cached], "geneid"))
       /\ DictGet(c.heap[cached], "entrez_summary") = None
    THEN Only({
             IF Truthy(e.val)
             THEN Only({
                      [c |-> GeneCache_set(
                                 [c EXCEPT !.heap = (cached :> enriched) @@ c.heap,
                                           !.io = e.io],
                                 gene_key, enriched),
                       outcome |-> "return", ret |-> cached]
                      : enriched \in {Merge(c.heap[cached],
                                            ("entrez_summary" :> e.val)
                                            @@ ("fetched_at" :> c.now))} })
             ELSE [c |-> [c EXCEPT !.io = e.io], outcome |-> "return", ret |-> cached]
             : e \in {fetch_summary_from_entrez(DictGet(c.heap[cached], "geneid"),
                                                env.summ, c.io)} })
    ELSE [c |-> c, outcome |-> "return", ret |-> cached]

\* cache_hit with line 303 reduced to `if geneid:`: the Entrez summary is
\* fetched on every hit of a record with a geneid, whether or not the record
\* already has one.
cache_hit_refetch(c, gene_key, cached, env) ==
    IF IsDict(c.heap[cached]) /\ Truthy(DictGet(c.heap[cached], "geneid"))
    THEN Only({
             IF Truthy(e.val)
             THEN Only({
                      [c |-> GeneCache_set(
                                 [c EXCEPT !.heap = (cached :> enriched) @@ c.heap,
                                           !.io = e.io],
                                 gene_key, enriched),
                       outcome |-> "return", ret |-> cached]
                      : enriched \in {Merge(c.heap[cached], "entrez_summary" :> e.val)} })
             ELSE [c |-> [c EXCEPT !.io = e.io], outcome |-> "return", ret |-> cached]
             : e \in {fetch_summary_from_entrez(DictGet(c.heap[cached], "geneid"),
                                                env.summ, c.io)} })
    ELSE [c |-> c, outcome |-> "return", ret |-> cached]

\* Lines 300-311: the cache hit. cached is the dict object the store holds;
\* when it has a geneid and no entrez_summary the Entrez summary is fetched
\* and, if there is one, written into that very object, which is then stored
\* again through set. The object itself is returned.
cache_hit(c, gene_key, cached, env) ==
    IF IsDict(c.heap[cached]) /\ Truthy(DictGet(c.heap[cached], "geneid"))
       /\ DictGet(c.heap[cached], "entrez_summary") = None
    THEN Only({
             IF Truthy(e.val)
             THEN Only({
                      [c |-> GeneCache_set(
                                 [c EXCEPT !.heap = (cached :> enriched) @@ c.heap,
                                           !.io = e.io],
                                 gene_key, enriched),
                       outcome |-> "return", ret |-> cached]
                      : enriched \in {Merge(c.heap[cached], "entrez_summary" :> e.val)} })
             ELSE [c |-> [c EXCEPT !.io = e.io], outcome |-> "return", ret |-> cached]
             : e \in {fetch_summary_from_entrez(DictGet(c.heap[cached], "geneid"),
                                                env.summ, c.io)} })
    ELSE [c |-> c, outcome |-> "return", ret |-> cached]

\* store_record that ends with `return out` in place of line 421: the record
\* is stored through set and returned without a second get.
store_record_noreadback(c, gene_key, env, summary, lk) ==
    Only({
        Only({ [c |-> c1, outcome |-> "return", ret |-> c1.data[gene_key]]
               : c1 \in {GeneCache_set(
                             [c EXCEPT !.io = e.io], gene_key,
                             build_record(gene_key, lk.details, lk.source,
                                          summary, e.val, c.now))} })
        : e \in {IF Truthy(DictGet(lk.details, "geneid"))
                 THEN fetch_summary_from_entrez(lk.details["geneid"], env.summ, lk.io)
                 ELSE [val |-> None, io |-> lk.io]} })

\* Lines 404-421: the Entrez summary is fetched when the details carry a
\* geneid; the record is built, stored through set and read back through get.
store_record(c, gene_key, env, summary, lk) ==
    Only({
        Only({ [c |-> g.c, outcome |-> "return", ret |-> g.ret]
               : g \in { GeneCache_get(c1, gene_key)
                         : c1 \in {GeneCache_set(
                                       [c EXCEPT !.io = e.io], gene_key,
                                       build_record(gene_key, lk.details, lk.source,
                                                    summary, e.val, c.now))} } })
        : e \in {IF Truthy(DictGet(lk.details, "geneid"))
                 THEN fetch_summary_from_entrez(lk.details["geneid"], env.summ, lk.io)
                 ELSE [val |-> None, io |-> lk.io]} })

\* The cache miss that remembers a failure: when nothing is found a stub is
\* stored under the key before GeneNotFoundError is raised.
cache_miss_negative(c, gene_key, env) ==
    Only({ Only({ Only({
            IF lk.notfound
            THEN [c |-> GeneCache_set([c EXCEPT !.io = lk.io], gene_key,
                                      ("summary" :> None) @@ ("source" :> "none")),
                  outcome |-> "GeneNotFoundError", ret |-> NoObj]
            ELSE store_record(c, gene_key, env, summary, lk)
            : lk \in {lookup_details(gene_key, env, summary # None, gc.io)} })
        : summary \in {IF gc.raised THEN None ELSE extract_summary(gc.val, gene_key)} })
      : gc \in {fetch_gene_from_genecards(env.portal, c.io)} })

\* Lines 313-421: the cache miss.
cache_miss(c, gene_key, env) ==
    Only({
        Only({
            Only({
                IF lk.notfound
                THEN [c |-> [c EXCEPT !.io = lk.io], outcome |-> "GeneNotFoundError",
                      ret |-> NoObj]
                ELSE store_record(c, gene_key, env, summary, lk)
                : lk \in {lookup_details(gene_key, env, summary # None, gc.io)} })
            : summary \in {IF gc.raised THEN None ELSE extract_summary(gc.val, gene_key)} })
        : gc \in {fetch_gene_from_genecards(env.portal, c.io)} })

\* Lines 296-311: the symbol is validated, then the cache is asked; the get of
\* line 300 is outside any try, so what it raises reaches the caller.
resolve_key(c, gene_key, env) ==
    IF gene_key = <<>>
    THEN [c |-> c, outcome |-> "ValueError", ret |-> NoObj]
    ELSE Only({
             IF g.c.exc # None THEN [c |-> g.c, outcome |-> g.c.exc, ret |-> NoObj]
             ELSE IF g.ret # NoObj THEN cache_hit(g.c, gene_key, g.ret, env)
             ELSE cache_miss(g.c, gene_key, env)
             : g \in {GeneCache_get(c, gene_key)} })

\* get_gene_data whose line 296 is `gene_key = gene.upper()`: the symbol is
\* not trimmed.
get_gene_data_untrimmed(c, passed, gene, env) ==
    Only({ IF c0.exc # None THEN [c |-> c0, outcome |-> c0.exc, ret |-> NoObj]
           ELSE resolve_key(c0, Upper(gene), env)
           : c0 \in {IF passed THEN c ELSE GeneCache_init(c, DEFAULT_CACHE_PATH)} })

\* get_gene_data(gene, cache). passed: the caller passed a cache (whose _data
\* is c.data); otherwise a GeneCache on the default path is constructed first
\* (lines 293-294), before the symbol is validated (lines 296-298).
get_gene_data(c, passed, gene, env) ==
    Only({ IF c0.exc # None THEN [c |-> c0, outcome |-> c0.exc, ret |-> NoObj]
           ELSE resolve_key(c0, Upper(Strip(gene)), env)
           : c0 \in {IF passed THEN c ELSE GeneCache_init(c, DEFAULT_CACHE_PATH)} })

-----------------------------------------------------------------------------
(* Inputs *)

\* The GeneCache instances of the program; they share the one document.
Instances == {"A", "B"}

\* The instance the callers of this specification use.
Callers == {"A"}

\* The argument `cache` of get_gene_data: an instance, or None.
NoCache == "none"

\* Gene symbols as typed by a caller: the empty one, a blank one, a gene in
\* lower and in upper case, and with whitespace on either side.
Symbols == { <<>>, <<" ">>, <<"a">>, <<"A">>, <<" ", "a", " ">> }

\* Field mappings a caller passes to GeneCache.set: a plain record (as in
\* test_cache_set_and_get), a legacy-shaped one (as in
\* test_legacy_cache_cleanup), one that carries a geneid and its own
\* fetched_at.
FieldMaps ==
    { ("symbol" :> <<"A">>) @@ ("summary" :> "Test summary"),
      ("data" :> "old format"),
      ("symbol" :> <<"A">>) @@ ("summary" :> "Test") @@ ("geneid" :> "672")
          @@ ("fetched_at" :> 0) }

\* The document before the program starts: missing, unreadable, written by
\* an earlier version of the program (a legacy entry), or written by something
\* else: a JSON value that is not an object (such as [] or null), an object
\* with an entry that is not an object ({"A": "text"}).
InitDocs ==
    { [kind |-> "missing", data |-> EmptyDict],
      [kind |-> "corrupt", data |-> EmptyDict],
      [kind |-> "object",
       data |-> (<<"A">> :> (("fetched_at" :> 0) @@ ("data" :> "old format")))],
      [kind |-> "value", data |-> EmptyDict],
      [kind |-> "object", data |-> (<<"A">> :> JsonText("text"))] }

\* The paths a caller constructs a GeneCache on.
Paths == {DEFAULT_CACHE_PATH, UnderFile, BelowFile}

\* Responses of the portal: a login page, a payload without any summary, a
\* payload with a top-level summary.
PortalResps ==
    { [net |-> TRUE, ctype |-> "text/html", body |-> Undecodable],
      [net |-> TRUE, ctype |-> "application/json", body |-> JDict(<<>>)],
      [net |-> TRUE, ctype |-> "application/json",
       body |-> JDict(<<Entry(Field("summary"), JStr("Portal summary"))>>)] }

\* Responses of the clinical-terms search: candidates none of which is the
\* gene, the gene (second candidate) with its extra fields.
NcbiResps ==
    { [ok |-> TRUE, codes |-> <<"HGNC:1">>, ef |-> JNull,
       displays |-> << <<<<"A", "B">>, "other gene">> >>],
      [ok |-> TRUE, codes |-> <<"HGNC:1", "HGNC:2">>,
       ef |-> [m |-> ("GeneID" :> <<"999", "672">>) @@ ("chromosome" :> <<"1", "17">>)
                     @@ ("map_location" :> <<"1p1.1", "17q21.31">>)],
       displays |-> << <<<<"A", "B">>, "other gene">>, <<<<"A">>, "gene A">> >>] }

\* Responses of the identifier search and of the summary request that follows.
EntrezResps ==
    { [sok |-> TRUE, ids |-> <<>>, iok |-> TRUE, info |-> EmptyDict],
      [sok |-> TRUE, ids |-> <<"672">>, iok |-> TRUE,
       info |-> ("name" :> <<"A">>) @@ ("chromosome" :> "17")
                @@ ("maplocation" :> "17q21.31") @@ ("description" :> "gene A")] }

\* Responses of the Entrez summary request.
SummResps ==
    { [ok |-> FALSE, uids |-> <<>>, info |-> EmptyDict],
      [ok |-> TRUE, uids |-> <<"672">>, info |-> ("summary" :> "Entrez summary")] }

-----------------------------------------------------------------------------
(* The state machine *)

\* The context in which an operation on a store whose _data is the dict
\* `data` runs; its writes of the document end as wr says.
Ctx(data, wr) ==
    [heap |-> heap, data |-> data, isdict |-> TRUE, doc |-> doc, wr |-> wr,
     now |-> now, io |-> <<>>, exc |-> None]

\* The context in which an operation on the instance i runs.
CtxOf(i, wr) == [Ctx(inst[i].data, wr) EXCEPT !.isdict = inst[i].isdict]

\* The ends of the writes of an operation that makes n of them when all
\* succeed (a failed write is swallowed: the operation goes on the same way).
AllOK == <<WriteOK, WriteOK>>

Writes(io) == Cardinality({k \in 1..Len(io) : io[k] = "write"})

WriteOutcomes(n) ==
    IF n = 0 THEN {AllOK}
    ELSE IF n = 1 THEN {<<w, WriteOK>> : w \in WriteEnds}
    ELSE {<<w1, w2>> : w1 \in WriteEnds, w2 \in WriteEnds}

\* A name no instance is bound to.
NoInstance == [live |-> FALSE, data |-> EmptyDict, isdict |-> TRUE]

\* The answers of services that are not asked.
DefaultEnv ==
    [portal |-> [net |-> FALSE, ctype |-> "none", body |-> Undecodable],
     ncbi |-> [ok |-> FALSE, codes |-> <<>>, ef |-> JNull, displays |-> <<>>],
     entrez |-> [sok |-> TRUE, ids |-> <<>>, iok |-> TRUE, info |-> EmptyDict],
     summ |-> [ok |-> FALSE, uids |-> <<>>, info |-> EmptyDict]]

Init ==
    /\ doc \in InitDocs
    /\ now = 0
    /\ \E c \in {GeneCache_init([heap |-> EmptyDict, data |-> EmptyDict,
                                   isdict |-> TRUE, doc |-> doc,
                                   wr |-> AllOK, now |-> 0, io |-> <<>>,
                                   exc |-> None], DEFAULT_CACHE_PATH)} :
           /\ heap = c.heap
           /\ inst = [i \in Instances |->
                        IF i = "A"
                        THEN [live |-> TRUE, data |-> c.data, isdict |-> c.isdict]
                        ELSE NoInstance]
           /\ last = [n |-> 0, op |-> "construct", inst |-> "A", gene |-> <<>>,
                      value |-> EmptyDict,
                      outcome |-> IF c.exc = None THEN "return" ELSE c.exc,
                      ret |-> NoObj,
                      io |-> c.io, env |-> DefaultEnv]
    /\ prev = [op |-> "none", inst |-> NoCache, gene |-> <<>>, outcome |-> "return",
               ret |-> NoObj]

\* What every operation does when it is over: the stores and the document are
\* as the operation left them, dicts no longer referred to are freed, and the
\* operation is recorded: its arguments, its outcome, the object it returned,
\* the I/O it performed and what the services answered (env). A constructor
\* that raised has made no instance: the name i is bound as it was.
Finish(c, i, op, gene, value, outcome, ret, env) ==
    /\ inst' = IF i \in Instances /\ ~(op = "construct" /\ outcome # "return")
               THEN [inst EXCEPT ![i] = [live |-> TRUE, data |-> c.data,
                                         isdict |-> c.isdict]]
               ELSE inst
    /\ doc' = c.doc
    /\ heap' = Collect(c.heap, inst', {ret, last.ret})
    /\ prev' = [op |-> last.op, inst |-> last.inst, gene |-> last.gene,
                outcome |-> last.outcome, ret |-> last.ret]
    /\ last' = [n |-> last.n + 1, op |-> op, inst |-> i, gene |-> gene, value |-> value,
                outcome |-> outcome, ret |-> ret, io |-> c.io, env |-> env]
    /\ UNCHANGED now

\* How an operation that ended with the context c ended: it returned, or the
\* exception that left it.
Outcome(c) == IF c.exc = None THEN "return" ELSE c.exc

\* cache = GeneCache(path): a new instance (bound to the name i) on the
\* document, unless the constructor raises.
Construct(i, path) ==
    /\ last.n < MaxOps
    /\ \E c \in {GeneCache_init(Ctx(EmptyDict, AllOK), path)} :
         Finish(c, i, "construct", <<>>, EmptyDict, Outcome(c), NoObj, DefaultEnv)

\* cache.get(gene)
Get(i, gene) ==
    /\ last.n < MaxOps
    /\ inst[i].live
    /\ \E c0 \in {CtxOf(i, AllOK)} :
         \E wr \in WriteOutcomes(Writes(GeneCache_get(c0, gene).c.io)) :
           \E r \in {GeneCache_get([c0 EXCEPT !.wr = wr], gene)} :
             Finish(r.c, i, "get", gene, EmptyDict, Outcome(r.c), r.ret, DefaultEnv)

\* cache.set(gene, value)
Set(i, gene, value) ==
    /\ last.n < MaxOps
    /\ inst[i].live
    /\ \E wr \in WriteOutcomes(IF inst[i].isdict THEN 1 ELSE 0) :
         \E c \in {GeneCache_set(Only({c0 : c0 \in {CtxOf(i, wr)}}), gene, value)} :
           Finish(c, i, "set", gene, value, Outcome(c), NoObj, DefaultEnv)

\* get_gene_data(gene, cache=i) when the services answer env and the writes
\* of the document succeed as wr says.
Run(i, gene, env, wr) ==
    Only({ get_gene_data(c, i \in Instances, gene, env)
           : c \in {IF i \in Instances THEN CtxOf(i, wr) ELSE Ctx(EmptyDict, wr)} })

ResolveWith(i, gene, env, wr) ==
    \E r \in {Run(i, gene, env, wr)} :
      Finish(r.c, i, "resolve", gene, EmptyDict, r.outcome, r.ret, env)

\* Whether get_gene_data(gene, cache=i) calls the adapter fn when the services
\* answer env.
Asks(i, gene, env, fn) ==
    \E io \in {Run(i, gene, env, AllOK).c.io} : \E k \in 1..Len(io) : io[k] = fn

\* get_gene_data(gene, cache=i): the services answer as they please and the
\* writes succeed or fail; a service that is not asked has no answer to choose.
Resolve(i, gene) ==
    /\ last.n < MaxOps
    /\ i \in Instances => inst[i].live
    /\ \E po \in IF Asks(i, gene, DefaultEnv, "fetch_gene_from_genecards")
                 THEN PortalResps ELSE {DefaultEnv.portal} :
         \E nc \in IF Asks(i, gene, [DefaultEnv EXCEPT !.portal = po],
                           "fetch_details_via_ncbi")
                   THEN NcbiResps ELSE {DefaultEnv.ncbi} :
           \E en \in IF Asks(i, gene, [DefaultEnv EXCEPT !.portal = po, !.ncbi = nc],
                             "fetch_gene_info_via_entrez")
                     THEN EntrezResps ELSE {DefaultEnv.entrez} :
             \E su \in IF Asks(i, gene,
                               [DefaultEnv EXCEPT !.portal = po, !.ncbi = nc, !.entrez = en],
                               "fetch_summary_from_entrez")
                       THEN SummResps ELSE {DefaultEnv.summ} :
               \E env \in {[portal |-> po, ncbi |-> nc, entrez |-> en, summ |-> su]} :
                 \E wr \in WriteOutcomes(Writes(Run(i, gene, env, AllOK).c.io)) :
                   ResolveWith(i, gene, env, wr)

\* Time passes.
Tick ==
    /\ now < MaxTime
    /\ now' = now + 1
    /\ UNCHANGED <<doc, heap, inst, prev, last>>

Next ==
    \/ \E i \in Callers, p \in Paths : Construct(i, p)
    \/ \E i \in Callers, g \in Symbols : Get(i, g)
    \/ \E i \in Callers, g \in Symbols, v \in FieldMaps : Set(i, g, v)
    \/ \E i \in Callers \cup {NoCache}, g \in Symbols : Resolve(i, g)
    \/ Tick

Spec == Init /\ [][Next]_vars

-----------------------------------------------------------------------------
(* Vocabulary of the properties *)

\* The trace io holds the event e / how many times.
Called(io, e) == \E k \in 1..Len(io) : io[k] = e

Count(io, e) == Cardinality({k \in 1..Len(io) : io[k] = e})

\* The three lookups of a cache miss, and all four source adapters.
Lookups ==
    {"fetch_gene_from_genecards", "fetch_details_via_ncbi", "fetch_gene_info_via_entrez"}

Adapters == Lookups \cup {"fetch_summary_from_entrez"}

\* Accesses to the file system and to the network.
DiskIO == {"mkdir", "exists", "read", "write", "write_failed"}

Requests == {"GET genecards", "GET ncbi_genes", "GET esearch", "GET esummary"}

\* The document after a write that ended as w says: `written` when it
\* succeeded, `before` when open() failed, the truncated document otherwise.
AfterWrite(w, before, written) ==
    IF w = WriteOK THEN written ELSE IF w = OpenFails THEN before ELSE Truncated

\* The symbol is empty once trimmed.
Blank(gene) == Strip(gene) = <<>>

\* The last operation was get_gene_data with the store i, and it returned a record.
Resolved(i) == last.op = "resolve" /\ last.outcome = "return" /\ last.inst = i

-----------------------------------------------------------------------------
(* Repeated and case-insensitive resolution *)

\* C1: after resolve(s) has returned a record with a passed store, a second
\* resolve(s) on the same store, the services answering as they did, returns
\* a record equal to the first in every field (fetched_at included) without
\* calling the portal adapter or either details lookup; it calls the Entrez
\* summary adapter at most once, and only when the cached record has a geneid
\* and no entrez_summary.
C1_RepeatedResolve ==
    \A i \in Callers :
      Resolved(i) =>
        \A wr \in WriteOutcomes(1) :
          \E r \in {Run(i, last.gene, last.env, wr)} :
            \E first \in {heap[last.ret]} :
              /\ r.outcome = "return"
              /\ r.c.heap[r.ret] = first
              /\ \A fn \in Lookups : ~Called(r.c.io, fn)
              /\ Count(r.c.io, "fetch_summary_from_entrez") <= 1
              /\ Called(r.c.io, "fetch_summary_from_entrez")
                   => /\ Truthy(DictGet(first, "geneid"))
                      /\ DictGet(first, "entrez_summary") = None

\* Two resolutions of the same symbol on store A, the clock having moved on in
\* between: the second is a hit that asks the Entrez summary again and returns
\* the record of the first, fetched_at included.
C1_Witness ==
    /\ prev.op = "resolve" /\ prev.outcome = "return" /\ prev.inst = "A"
    /\ Resolved("A") /\ last.gene = prev.gene
    /\ ~Called(last.io, "fetch_gene_from_genecards")
    /\ Called(last.io, "fetch_summary_from_entrez")
    /\ ~Called(last.io, "GeneCache.set")
    /\ last.ret = prev.ret
    /\ heap[last.ret]["fetched_at"] < now

\* C2: after resolve(s) has returned a record with a passed store, resolve of
\* s in lower case and of s in upper case return a record identical to it,
\* served from the one entry stored under the trimmed, uppercased symbol: the
\* very dict the store holds under that key is returned, no lookup is made and
\* the store has the same keys afterwards. The record of the first call is
\* that same dict or equal to it, also when the hit adds an Entrez summary.
C2_CaseInsensitiveResolve ==
    \A i \in Callers :
      Resolved(i) =>
        \A g \in {Lower(last.gene), Upper(last.gene)} :
          \A su \in SummResps :
            \A wr \in WriteOutcomes(1) :
              \E r \in {Run(i, g, [DefaultEnv EXCEPT !.summ = su], wr)} :
                \E key \in {Upper(Strip(last.gene))} :
                  /\ r.outcome = "return"
                  /\ key \in DOMAIN inst[i].data
                  /\ r.ret = inst[i].data[key]
                  /\ r.c.heap[r.ret] = r.c.heap[last.ret]
                  /\ su = last.env.summ => r.c.heap[r.ret] = heap[last.ret]
                  /\ DOMAIN r.c.data = DOMAIN inst[i].data
                  /\ \A fn \in Lookups : ~Called(r.c.io, fn)

\* resolve("a") was a miss that stored a record; resolve("A") then returned
\* that record from the entry under "A" without any lookup.
C2_Witness ==
    /\ prev.op = "resolve" /\ prev.outcome = "return" /\ prev.inst = "A"
    /\ prev.gene = <<"a">>
    /\ Resolved("A") /\ last.gene = <<"A">>
    /\ \A fn \in Lookups : ~Called(last.io, fn)
    /\ DOMAIN inst["A"].data = {<<"A">>}
    /\ last.ret = inst["A"].data[<<"A">>]
    /\ heap[last.ret] = heap[prev.ret]

-----------------------------------------------------------------------------
(* Validation of the symbol *)

\* C3: resolve of a symbol that is empty once trimmed raises ValueError
\* without calling any source adapter, and leaves the contents of the passed
\* store (and the document behind it) as they were.
C3_BlankRejected ==
    /\ (last.op = "resolve" /\ Blank(last.gene))
         => /\ last.outcome = "ValueError"
            /\ \A fn \in Adapters : ~Called(last.io, fn)
    /\ \A i \in Callers, g \in {s \in Symbols : Blank(s)}, po \in PortalResps :
         inst[i].live =>
           \E r \in {Run(i, g, [DefaultEnv EXCEPT !.portal = po], AllOK)} :
             /\ r.outcome = "ValueError"
             /\ \A fn \in Adapters : ~Called(r.c.io, fn)
             /\ r.c.data = inst[i].data
             /\ r.c.heap = heap
             /\ r.c.doc = doc

\* A record was set in store A, then resolve(" ") on that store raised
\* ValueError; the store still holds the record.
C3_Witness ==
    /\ prev.op = "set"
    /\ last.op = "resolve" /\ last.inst = "A" /\ last.gene = <<" ">>
    /\ last.outcome = "ValueError"
    /\ last.io = <<>>
    /\ DOMAIN inst["A"].data # {}

\* C4: a blank symbol is rejected before any I/O, also when no store is
\* passed: get_gene_data that raises ValueError has touched neither the file
\* system nor the network.
C4_BlankBeforeIO ==
    (last.op = "resolve" /\ last.outcome = "ValueError")
      => \A e \in DiskIO \cup Requests : ~Called(last.io, e)

-----------------------------------------------------------------------------
(* The cache miss without a portal summary *)

\* What the services' answers make of the three lookups for the key.
NoPortalSummary(env, key) ==
    \E gc \in {fetch_gene_from_genecards(env.portal, <<>>)} :
      gc.raised \/ extract_summary(gc.val, key) = None

Pass1Found(env, key) == fetch_details_via_ncbi(key, env.ncbi, <<>>).found

Pass2Found(env, key) == fetch_gene_info_via_entrez(key, env.entrez, <<>>).some

\* The last operation was get_gene_data, it missed the cache, and the portal
\* adapter raised or its payload had no summary to extract.
MissWithoutSummary ==
    /\ last.op = "resolve"
    /\ Called(last.io, "fetch_gene_from_genecards")
    /\ NoPortalSummary(last.env, Upper(Strip(last.gene)))

\* C5: on a cache miss where the portal adapter raised or gave no summary,
\* pass 1 reported not-found and pass 2 returned nothing, get_gene_data raises
\* GeneNotFoundError, GeneCache.set is not called, and the store holds no
\* entry under the key afterwards.
C5_NotFoundWritesNothing ==
    \E key \in {Upper(Strip(last.gene))} :
      (MissWithoutSummary /\ ~Pass1Found(last.env, key) /\ ~Pass2Found(last.env, key))
        => /\ last.outcome = "GeneNotFoundError"
           /\ ~Called(last.io, "GeneCache.set")
           /\ Called(last.io, "fetch_details_via_ncbi")
           /\ Called(last.io, "fetch_gene_info_via_entrez")
           /\ last.inst \in Instances => key \notin DOMAIN inst[last.inst].data

\* resolve("a") on store A: the portal answered with a payload that has no
\* summary, both lookups found nothing, GeneNotFoundError was raised.
C5_Witness ==
    /\ MissWithoutSummary /\ last.inst = "A" /\ last.gene = <<"a">>
    /\ last.env.portal.body = JDict(<<>>)
    /\ ~Pass1Found(last.env, <<"A">>) /\ ~Pass2Found(last.env, <<"A">>)
    /\ last.outcome = "GeneNotFoundError"
    /\ <<"A">> \notin DOMAIN inst["A"].data

\* C6: on a cache miss where the portal adapter raised or gave no summary,
\* the record returned is the one stored, its source is "ncbi" exactly when
\* pass 1 found the gene and "entrez" exactly when pass 1 did not and pass 2
\* did; it is never anything else.
C6_SourceTag ==
    \E key \in {Upper(Strip(last.gene))} :
      (MissWithoutSummary /\ last.outcome = "return")
        => /\ heap[last.ret]["source"] \in {"ncbi", "entrez"}
           /\ heap[last.ret]["source"] = "ncbi" <=> Pass1Found(last.env, key)
           /\ heap[last.ret]["source"] = "entrez"
                <=> (~Pass1Found(last.env, key) /\ Pass2Found(last.env, key))
           /\ last.inst \in Instances
                => /\ key \in DOMAIN inst[last.inst].data
                   /\ inst[last.inst].data[key] = last.ret

\* resolve("a") on store A: the portal raised, pass 1 did not find the gene,
\* pass 2 did; the record stored and returned is tagged "entrez".
C6_Witness ==
    /\ MissWithoutSummary /\ last.inst = "A" /\ last.gene = <<"a">>
    /\ last.env.portal.body = Undecodable
    /\ last.outcome = "return"
    /\ Called(last.io, "fetch_gene_info_via_entrez")
    /\ heap[last.ret]["source"] = "entrez"
    /\ inst["A"].data[<<"A">>] = last.ret

-----------------------------------------------------------------------------
(* The store: round trip, legacy entries, keys *)

\* The last operation was set(last.gene, last.value) on the store i, and it
\* returned (on a store whose _data is not a dict it raises TypeError).
JustSet(i) == last.op = "set" /\ last.inst = i /\ last.outcome = "return"

\* The dict rec has every field of the mapping v with v's value.
HasFieldsOf(rec, v) == \A f \in DOMAIN v : f \in DOMAIN rec /\ rec[f] = v[f]

\* C7 as stated: for every key k and every field mapping v, set(k, v)
\* immediately followed by get(k) returns a record (not absent) that has
\* every field of v with v's value, and a fetched_at.
C7_RoundTrip ==
    \A i \in Callers :
      JustSet(i) =>
        \E r \in {GeneCache_get(CtxOf(i, AllOK), last.gene)} :
          /\ r.ret # NoObj
          /\ HasFieldsOf(r.c.heap[r.ret], last.value)
          /\ "fetched_at" \in DOMAIN r.c.heap[r.ret]

\* C7, amended: set(k, v) immediately followed by get(k) returns a record
\* with every field of v with v's value and a fetched_at (the time of the set
\* when v has none) unless v is legacy-shaped (a data field and no summary
\* field): then get(k) returns absent and removes the entry just set.
C7_RoundTripOfRecords ==
    \A i \in Callers :
      JustSet(i) =>
        \A wr \in WriteOutcomes(1) :
          \E r \in {GeneCache_get(CtxOf(i, wr), last.gene)} :
            IF IsLegacy(last.value)
            THEN /\ r.ret = NoObj
                 /\ Upper(last.gene) \notin DOMAIN r.c.data
            ELSE /\ r.ret # NoObj
                 /\ HasFieldsOf(r.c.heap[r.ret], last.value)
                 /\ "fetched_at" \in DOMAIN r.c.heap[r.ret]
                 /\ "fetched_at" \notin DOMAIN last.value
                      => r.c.heap[r.ret]["fetched_at"] \in 0..now
                 /\ r.c.data = inst[i].data

\* set("a", v) with the plain record of test_cache_set_and_get, then get("a"):
\* the record came back with v's summary and a fetched_at.
C7_Witness ==
    /\ prev.op = "set" /\ prev.inst = "A" /\ prev.gene = <<"a">>
    /\ last.op = "get" /\ last.inst = "A" /\ last.gene = <<"a">>
    /\ last.ret # NoObj
    /\ heap[last.ret]["summary"] = "Test summary"
    /\ "fetched_at" \in DOMAIN heap[last.ret]
    /\ "geneid" \notin DOMAIN heap[last.ret]

\* The store i holds a legacy-shaped value under the key of the symbol g.
HoldsLegacy(i, g) ==
    /\ inst[i].live
    /\ Upper(g) \in DOMAIN inst[i].data
    /\ IsLegacy(heap[inst[i].data[Upper(g)]])

\* After c, a get of g on the same instance returns absent, whether or not
\* its write succeeds.
SameInstanceAbsent(c, g) ==
    \A wr \in WriteOutcomes(1) :
      \E r \in {GeneCache_get([c EXCEPT !.wr = wr, !.io = <<>>], g)} :
        r.ret = NoObj /\ r.c.exc = None

\* After c, a get of g on a newly constructed instance returns absent.
NewInstanceAbsent(c, g) ==
    \A wr \in WriteOutcomes(1) :
      \E c2 \in {GeneCache_init([c EXCEPT !.wr = wr, !.io = <<>>], DEFAULT_CACHE_PATH)} :
        \E r \in {GeneCache_get(c2, g)} :
          r.ret = NoObj /\ r.c.exc = None

\* After c, get_gene_data of g with that store asks the portal: a cache miss.
ResolveMisses(c, g) ==
    \E rr \in {get_gene_data([c EXCEPT !.wr = AllOK, !.io = <<>>], TRUE, g, DefaultEnv)} :
      Called(rr.c.io, "fetch_gene_from_genecards")

\* C8 as stated: when the value under a key is legacy-shaped, get returns
\* absent and removes the entry from the in-memory store and from the
\* document, every later get of the key returns absent (same instance or a
\* new one), and a resolve on the key proceeds as a cache miss.
C8_LegacyRemoved ==
    \A i \in Callers, g \in Symbols :
      HoldsLegacy(i, g) =>
        \A wr \in WriteOutcomes(1) :
          \E r \in {GeneCache_get(CtxOf(i, wr), g)} :
            /\ r.ret = NoObj
            /\ Upper(g) \notin DOMAIN r.c.data
            /\ Upper(g) \notin DOMAIN r.c.doc.data
            /\ SameInstanceAbsent(r.c, g)
            /\ NewInstanceAbsent(r.c, g)
            /\ ResolveMisses(r.c, Upper(g))

\* C8, amended: get returns absent and removes the entry from the in-memory
\* store; the document is rewritten without the entry when the write
\* succeeds (a failed write is swallowed, and leaves the document as it was
\* or truncated). Every later get of the key on the same instance returns
\* absent; so does a get on a newly constructed instance when the write
\* succeeded or truncated the document, or when the document holds under the
\* key nothing but a legacy entry (another store may have written a record
\* there in the meantime). A resolve with the same store whose key (the
\* trimmed, uppercased symbol) is that key proceeds as a cache miss.
C8_LegacyInvalidated ==
    \A i \in Callers, g \in Symbols :
      HoldsLegacy(i, g) =>
        \A wr \in WriteOutcomes(1) :
          \E r \in {GeneCache_get(CtxOf(i, wr), g)} :
            /\ r.ret = NoObj
            /\ Upper(g) \notin DOMAIN r.c.data
            /\ Head(wr) = WriteOK => /\ r.c.doc.kind = "object"
                                     /\ Upper(g) \notin DOMAIN r.c.doc.data
            /\ Head(wr) = DumpFails => r.c.doc = Truncated
            /\ Head(wr) = OpenFails => r.c.doc = doc
            /\ SameInstanceAbsent(r.c, g)
            /\ (Head(wr) # OpenFails \/ Upper(g) \notin DOMAIN doc.data
                   \/ IsLegacy(doc.data[Upper(g)]))
                 => NewInstanceAbsent(r.c, g)
            /\ (~Blank(g) /\ Strip(g) = g) => ResolveMisses(r.c, g)

\* The document held a legacy entry under "A" when the store was constructed;
\* get("a") returned absent and rewrote the document without it.
C8_Witness ==
    /\ prev.op = "construct"
    /\ last.op = "get" /\ last.inst = "A" /\ last.gene = <<"a">>
    /\ last.ret = NoObj
    /\ Called(last.io, "write")
    /\ <<"A">> \notin DOMAIN inst["A"].data
    /\ doc.kind = "object" /\ <<"A">> \notin DOMAIN doc.data

\* C9: no two keys of a store (or of the document) differ only in letter
\* case, and a record set under one casing of a symbol is returned by get
\* under every casing of it: the dict stored by the set, when the value is a
\* record; absent under every casing when the value is legacy-shaped.
C9_CaseInsensitiveKeys ==
    /\ \A i \in Callers : \A k1, k2 \in DOMAIN inst[i].data :
         Upper(k1) = Upper(k2) => k1 = k2
    /\ \A k1, k2 \in DOMAIN doc.data : Upper(k1) = Upper(k2) => k1 = k2
    /\ \A i \in Callers :
         JustSet(i) =>
           \A g \in {last.gene, Lower(last.gene), Upper(last.gene)} :
             \E r \in {GeneCache_get(CtxOf(i, AllOK), g)} :
               IF IsLegacy(last.value) THEN r.ret = NoObj
               ELSE /\ r.ret # NoObj
                    /\ r.ret = inst[i].data[Upper(last.gene)]
                    /\ HasFieldsOf(r.c.heap[r.ret], last.value)

\* set("a", v) with a record, then get("A"): the record came back, and the
\* store has the one key "A".
C9_Witness ==
    /\ prev.op = "set" /\ prev.inst = "A" /\ prev.gene = <<"a">>
    /\ last.op = "get" /\ last.inst = "A" /\ last.gene = <<"A">>
    /\ last.ret # NoObj
    /\ "summary" \in DOMAIN heap[last.ret]
    /\ DOMAIN inst["A"].data = {<<"A">>}

\* C10 as stated: get and set trim the key as well as uppercasing it: get of
\* k with surrounding whitespace returns what get of the trimmed k returns,
\* and set with such a key stores under the key set with the trimmed k uses.
C10_StoreTrimsKeys ==
    \A i \in Callers, k \in Symbols :
      (inst[i].live /\ inst[i].isdict) =>
        \E c0 \in {CtxOf(i, AllOK)} :
          /\ GeneCache_get(c0, k).ret = GeneCache_get(c0, Strip(k)).ret
          /\ \A v \in FieldMaps :
               DOMAIN GeneCache_set(c0, k, v).data
                 = DOMAIN GeneCache_set(c0, Strip(k), v).data

\* C10, amended: get and set normalize the key by uppercasing only. get(k)
\* returns what get of the uppercased k returns; set(k, v) stores under the
\* uppercased k, whitespace included, so that a key with surrounding
\* whitespace is another entry than the trimmed key. The trimming is done by
\* get_gene_data: with a padded symbol it does what it does with the trimmed
\* one. The stores are those whose _data is a dict, the ones that can hold a
\* record.
C10_StoreUppercasesOnly ==
    \A i \in Callers, k \in Symbols :
      (inst[i].live /\ inst[i].isdict) =>
        \E c0 \in {CtxOf(i, AllOK)} :
          /\ GeneCache_get(c0, k).ret = GeneCache_get(c0, Upper(k)).ret
          /\ \A v \in FieldMaps :
               \E c1 \in {GeneCache_set(c0, k, v)} :
                 /\ DOMAIN c1.data = DOMAIN c0.data \cup {Upper(k)}
                 /\ ~IsLegacy(v) => GeneCache_get(c1, k).ret = c1.data[Upper(k)]
                 /\ (Strip(k) # k /\ Upper(Strip(k)) \notin DOMAIN c0.data)
                      => GeneCache_get(c1, Strip(k)).ret = NoObj
          /\ (Strip(k) # k /\ ~Blank(k)) =>
               \A po \in PortalResps :
                 \E env \in {[DefaultEnv EXCEPT !.portal = po]} :
                   \E r1 \in {Run(i, k, env, AllOK)}, r2 \in {Run(i, Strip(k), env, AllOK)} :
                     /\ r1.outcome = r2.outcome
                     /\ r1.ret = r2.ret
                     /\ r1.c.data = r2.c.data
                     /\ r1.c.heap = r2.c.heap

\* set(" a ", v) with a record, then get("a"): absent, the record is under
\* the key " A ".
C10_Witness ==
    /\ prev.op = "set" /\ prev.inst = "A" /\ prev.gene = <<" ", "a", " ">>
    /\ last.op = "get" /\ last.inst = "A" /\ last.gene = <<"a">>
    /\ last.ret = NoObj
    /\ DOMAIN inst["A"].data = {<<" ", "A", " ">>}
    /\ "summary" \in DOMAIN heap[inst["A"].data[<<" ", "A", " ">>]]

-----------------------------------------------------------------------------
(* Persistence *)

\* The last operation, on the store i, made a write of the document that failed.
WriteFailed(i) == last.inst = i /\ Called(last.io, "write_failed")

\* C11: when the write of the document fails during set or during the
\* deletion of a legacy entry, the operation returns normally and the store
\* in memory has the mutation: after a set whose write failed, get on the
\* same instance returns the record that was set; after a legacy deletion
\* whose write failed, the entry is gone and get returns absent.
C11_FailedWriteKeepsMemory ==
    \A i \in Callers :
      /\ (JustSet(i) /\ WriteFailed(i)) =>
           /\ last.outcome = "return"
           /\ Upper(last.gene) \in DOMAIN inst[i].data
           /\ \A wr \in WriteOutcomes(1) :
                \E r \in {GeneCache_get(CtxOf(i, wr), last.gene)} :
                  IF IsLegacy(last.value) THEN r.ret = NoObj
                  ELSE /\ r.ret = inst[i].data[Upper(last.gene)]
                       /\ HasFieldsOf(r.c.heap[r.ret], last.value)
      /\ (last.op = "get" /\ WriteFailed(i)) =>
           /\ last.outcome = "return"
           /\ last.ret = NoObj
           /\ Upper(last.gene) \notin DOMAIN inst[i].data
           /\ \A wr \in WriteOutcomes(1) :
                GeneCache_get(CtxOf(i, wr), last.gene).ret = NoObj

\* set("a", v) with a record, whose write failed (the document has no entry
\* "A"), then get("a") on the same instance: the record came back.
C11_Witness ==
    /\ prev.op = "set" /\ prev.inst = "A" /\ prev.gene = <<"a">>
    /\ last.op = "get" /\ last.inst = "A" /\ last.gene = <<"a">>
    /\ last.ret # NoObj
    /\ heap[last.ret]["summary"] = "Test summary"
    /\ <<"A">> \notin DOMAIN doc.data

\* After a construction: a constructor that got as far as the document
\* returned, whatever the document holds (one that raised did so in creating
\* the parent directory and has not looked at the document); and when the
\* document is of one of the given kinds the store is empty, and every get
\* returns absent, raises nothing and leaves the store empty.
StartsEmpty(kinds) ==
    /\ last.op = "construct" =>
         /\ Called(last.io, "exists") => last.outcome = "return"
         /\ last.outcome # "return" => last.io = <<"mkdir">>
         /\ (last.outcome = "return" /\ doc.kind \in kinds) =>
              /\ inst[last.inst].isdict
              /\ inst[last.inst].data = EmptyDict
              /\ \A g \in Symbols :
                   \E r \in {GeneCache_get(CtxOf(last.inst, AllOK), g)} :
                     /\ r.c.exc = None
                     /\ r.ret = NoObj /\ r.c.data = EmptyDict /\ r.c.doc = doc
    /\ (prev.op = "construct" /\ prev.outcome = "return" /\ last.op = "get"
          /\ doc.kind \in kinds) =>
         /\ last.outcome = "return"
         /\ last.ret = NoObj
         /\ inst[last.inst].data = EmptyDict

\* C12 as stated: constructing a store never raises because of the state of
\* the document, and with a document that gives the store no object to start
\* from (it is missing, it cannot be read or parsed, or what it parses to is
\* not a JSON object) the store is empty and every get returns absent until
\* a set is made.
C12_ConstructNeverRaises == StartsEmpty({"missing", "corrupt", "value"})

\* C12, the part of it the code keeps: the constructor never raises because
\* of the document, and with a missing document or one that cannot be read
\* or parsed the store is empty and every get returns absent.
C12_UnparsableStartsEmpty == StartsEmpty({"missing", "corrupt"})

\* A store was constructed on a document that holds a JSON value other than
\* an object; the constructor returned, and get("a") raised AttributeError.
C12_Witness ==
    /\ prev.op = "construct" /\ prev.outcome = "return"
    /\ last.op = "get" /\ last.inst = "A" /\ last.gene = <<"a">>
    /\ doc.kind = "value"
    /\ ~inst["A"].isdict
    /\ last.outcome = "AttributeError"
    /\ last.io = <<"GeneCache.get">>

\* The last write of the document in the trace io succeeded.
LastWriteOK(io) ==
    \E k \in 1..Len(io) :
      /\ io[k] = "write"
      /\ \A j \in (k + 1)..Len(io) : io[j] \notin {"write", "write_failed"}

\* The record get returns, as a value: EmptyDict for absent.
Got(g) == IF g.ret = NoObj THEN EmptyDict ELSE g.c.heap[g.ret]

\* C13: after every mutation whose write succeeds (set, legacy deletion, the
\* enrichment of a cache hit, the set of a cache miss) the document is the
\* whole in-memory store of the instance that wrote it, and a store
\* constructed afterwards on the document has the same keys and returns for
\* every key what the writing instance returns.
C13_DocumentIsStore ==
    \A i \in Callers :
      (last.inst = i /\ LastWriteOK(last.io)) =>
        /\ doc.kind = "object"
        /\ doc.data = Dump(heap, inst[i].data)
        /\ \E c2 \in {GeneCache_init(Ctx(EmptyDict, AllOK), DEFAULT_CACHE_PATH)} :
             /\ DOMAIN c2.data = DOMAIN inst[i].data
             /\ \A k \in DOMAIN c2.data :
                  Got(GeneCache_get(c2, k)) = Got(GeneCache_get(CtxOf(i, AllOK), k))

\* Two sets on store A under different keys, the second written: the
\* document holds both entries, as the store does.
C13_Witness ==
    /\ prev.op = "set" /\ last.op = "set" /\ last.inst = "A"
    /\ LastWriteOK(last.io)
    /\ Cardinality(DOMAIN inst["A"].data) = 2
    /\ DOMAIN doc.data = DOMAIN inst["A"].data
    /\ \E k \in DOMAIN doc.data : "summary" \in DOMAIN doc.data[k]

-----------------------------------------------------------------------------
(* The source adapters on their own: each adapter is called with every      *)
(* answer its service can give. last records the call: the adapter (op),    *)
(* its argument, the answer (resp), the result (res) and the exception that *)
(* left the adapter (exc, None when it returned).                           *)

\* Symbols the adapters are asked about.
AdapterGenes == { <<"a">>, <<"A">>, <<"b">> }

\* Answers of the portal: reached or not, the content type, the body.
PortalAnswers ==
    { [net |-> n, ctype |-> t, body |-> b] :
        n \in BOOLEAN,
        t \in {"application/json", "Application/JSON; charset=utf-8", "text/html", ""},
        b \in {Undecodable, JDict(<<>>), JList(<<>>),
               JDict(<<Entry(Field("summary"), JStr("Portal summary"))>>)} }

\* Candidate lists of the clinical-terms search: none; a partial match only;
\* a partial match, then the gene in lower and in upper case; a row without
\* fields and a row with a symbol only; the symbol with a leading blank.
DisplayLists ==
    << <<>>,
       << <<<<"A", "B">>, "other gene">> >>,
       << <<<<"A", "B">>, "other gene">>, <<<<"a">>, "gene a">>, <<<<"A">>, "gene A">> >>,
       << <<>>, << <<"A">> >> >>,
       << <<<<" ", "A">>, "padded">> >> >>

\* Extra-field data: none, all three fields for three candidates, a GeneID
\* for the first candidate only.
ExtraFields ==
    << JNull,
       [m |-> ("GeneID" :> <<"1", "2", "3">>) @@ ("chromosome" :> <<"1", "17", "X">>)
              @@ ("map_location" :> <<"1p1", "17q21", "Xq28">>)],
       [m |-> ("GeneID" :> <<"1">>)] >>

CodeLists == << <<>>, <<"HGNC:1", "HGNC:2", "HGNC:3">> >>

\* Answers to the identifier search and to the summary request after it.
IdLists == << <<>>, <<"672">>, <<"999", "672">> >>

InfoDicts ==
    << EmptyDict,
       ("name" :> <<"A">>) @@ ("chromosome" :> "17") @@ ("maplocation" :> "17q21.31")
           @@ ("description" :> "gene A"),
       ("chromosome" :> "17") >>

\* Identifiers passed to the summary fetch, and the dict under the first uid.
GeneIds == <<"672", "abc", "", None>>

SummaryDicts ==
    << EmptyDict,
       ("summary" :> "Entrez summary"),
       ("Summary" :> "Alt summary"),
       ("summary" :> "") @@ ("Summary" :> "Alt summary"),
       ("summary" :> "") >>

AdapterInit ==
    /\ doc = [kind |-> "missing", data |-> EmptyDict]
    /\ heap = EmptyDict
    /\ inst = [i \in Instances |-> NoInstance]
    /\ now = 0
    /\ prev = [op |-> "none"]
    /\ last = [op |-> "none", gene |-> <<>>, resp |-> EmptyDict, res |-> EmptyDict,
               exc |-> None]

\* The call is recorded (prev is the adapter called before).
Record(op, gene, resp, res, exc) ==
    /\ last' = [op |-> op, gene |-> gene, resp |-> resp, res |-> res, exc |-> exc]
    /\ prev' = [op |-> last.op]

CallPortal ==
    /\ UNCHANGED <<doc, heap, inst, now>>
    /\ \E resp \in PortalAnswers :
         \E res \in {fetch_gene_from_genecards(resp, <<>>)} :
           Record("fetch_gene_from_genecards", <<>>, resp, res,
                   IF res.raised THEN "RuntimeError" ELSE None)

CallNcbi ==
    /\ UNCHANGED <<doc, heap, inst, now>>
    /\ \E gene \in AdapterGenes, ok \in BOOLEAN, d \in DOMAIN DisplayLists,
          e \in DOMAIN ExtraFields, k \in DOMAIN CodeLists :
         \E resp \in {[ok |-> ok, codes |-> CodeLists[k], ef |-> ExtraFields[e],
                       displays |-> DisplayLists[d]]} :
           \E res \in {fetch_details_via_ncbi(gene, resp, <<>>)} :
             Record("fetch_details_via_ncbi", gene, resp, res,
                     IF res.found THEN None ELSE "GeneNotFoundError")

CallEntrez ==
    /\ UNCHANGED <<doc, heap, inst, now>>
    /\ \E gene \in AdapterGenes, sok \in BOOLEAN, iok \in BOOLEAN,
          d \in DOMAIN IdLists, f \in DOMAIN InfoDicts :
         \E resp \in {[sok |-> sok, ids |-> IdLists[d], iok |-> iok, info |-> InfoDicts[f]]} :
           \E res \in {fetch_gene_info_via_entrez(gene, resp, <<>>)} :
             Record("fetch_gene_info_via_entrez", gene, resp, res, None)

CallSummary ==
    /\ UNCHANGED <<doc, heap, inst, now>>
    /\ \E g \in DOMAIN GeneIds, ok \in BOOLEAN, u \in DOMAIN IdLists, f \in DOMAIN SummaryDicts :
         \E resp \in {[ok |-> ok, uids |-> IdLists[u], info |-> SummaryDicts[f]]} :
           \E res \in {fetch_summary_from_entrez(GeneIds[g], resp, <<>>)} :
             Record("fetch_summary_from_entrez", GeneIds[g], resp, res, None)

AdapterNext == CallPortal \/ CallNcbi \/ CallEntrez \/ CallSummary

SpecAdapters == AdapterInit /\ [][AdapterNext]_vars

-----------------------------------------------------------------------------
(* The adapters' contracts *)

\* C14 as stated: the portal adapter raises RuntimeError whenever the content
\* type of the response is not JSON, whatever the body, and on every network
\* failure; it never signals not-found.
C14_RaisesOnNonJsonType ==
    last.op = "fetch_gene_from_genecards" =>
      /\ (~last.resp.net \/ ~IsJsonType(last.resp.ctype)) => last.exc = "RuntimeError"
      /\ last.exc # "GeneNotFoundError"

\* C14, amended: the portal adapter raises RuntimeError exactly when the
\* request fails at the network level or the body of the response does not
\* decode as JSON; a body that decodes is returned as the payload whatever
\* the content type is. It never signals not-found, and it sends one request.
C14_RaisesOnUndecodableBody ==
    last.op = "fetch_gene_from_genecards" =>
      /\ last.exc \in {None, "RuntimeError"}
      /\ last.exc = "RuntimeError" <=> (~last.resp.net \/ last.resp.body = Undecodable)
      /\ last.exc = None => last.res.val = last.resp.body
      /\ last.res.io = <<"fetch_gene_from_genecards", "GET genecards">>

\* The portal answered with content type text/html and a body that is a JSON
\* object with a summary: the adapter returned that object.
C14_Witness ==
    /\ last.op = "fetch_gene_from_genecards"
    /\ last.resp.net /\ last.resp.ctype = "text/html"
    /\ last.resp.body = JDict(<<Entry(Field("summary"), JStr("Portal summary"))>>)
    /\ last.exc = None
    /\ last.res.val = last.resp.body

\* The symbol of the i-th candidate (NoSym when the row is empty), and whether
\* it is the query: same length, same characters up to letter case.
SymAt(resp, i) == IF Len(resp.displays[i]) >= 1 THEN resp.displays[i][1] ELSE NoSym

Exact(resp, gene, i) ==
    \E sym \in {SymAt(resp, i)} :
      /\ sym # NoSym
      /\ Len(sym) = Len(gene)
      /\ \A k \in 1..Len(sym) : UpperChar(sym[k]) = UpperChar(gene[k])

\* The extra field f of the i-th candidate, None when the data is missing.
ExtraAt(resp, f, i) ==
    IF resp.ef = JNull THEN None
    ELSE IF f \notin DOMAIN resp.ef.m THEN None
    ELSE IF i > Len(resp.ef.m[f]) THEN None
    ELSE resp.ef.m[f][i]

\* C15: pass 1 returns a result only for the first candidate, in response
\* order, whose symbol is the query up to letter case, character for
\* character; geneid, chromosome and map_location are those at the same
\* position (None when the extra-field data is missing). With a failed
\* request, no candidates, no codes or no exact match it raises
\* GeneNotFoundError; it raises nothing else.
C15_ExactMatchOnly ==
    last.op = "fetch_details_via_ncbi" =>
      \E resp \in {last.resp}, gene \in {last.gene} :
        /\ last.exc \in {None, "GeneNotFoundError"}
        /\ last.exc = None =>
             \E i \in 1..Len(resp.displays) :
               /\ Exact(resp, gene, i)
               /\ \A j \in 1..(i - 1) : ~Exact(resp, gene, j)
               /\ last.res.details["symbol"] = SymAt(resp, i)
               /\ last.res.details["description"]
                    = (IF Len(resp.displays[i]) >= 2 THEN resp.displays[i][2] ELSE None)
               /\ last.res.details["geneid"] = ExtraAt(resp, "GeneID", i)
               /\ last.res.details["chromosome"] = ExtraAt(resp, "chromosome", i)
               /\ last.res.details["map_location"] = ExtraAt(resp, "map_location", i)
        /\ (\/ ~resp.ok \/ resp.displays = <<>> \/ resp.codes = <<>>
            \/ \A i \in 1..Len(resp.displays) : ~Exact(resp, gene, i))
             => last.exc = "GeneNotFoundError"
        /\ last.res.io = <<"fetch_details_via_ncbi", "GET ncbi_genes">>

\* Asked for "A", the service listed "AB", "a" and "A": the adapter returned
\* the second candidate, "a", with the extra fields at the second position.
C15_Witness ==
    /\ last.op = "fetch_details_via_ncbi" /\ last.gene = <<"A">>
    /\ last.resp.displays = DisplayLists[3]
    /\ last.resp.ef = ExtraFields[2]
    /\ last.exc = None
    /\ last.res.details["symbol"] = <<"a">>
    /\ last.res.details["geneid"] = "2"
    /\ last.res.details["chromosome"] = "17"

\* C16: pass 2 never raises: whatever its two requests give, it returns None
\* or a dict of the five fields; it returns None, without its second request,
\* when the identifier search fails or yields no id, and None when the second
\* request fails; otherwise the dict has the first id as geneid and the name
\* of the gene (the query when there is none) as symbol.
C16_Pass2NeverRaises ==
    last.op = "fetch_gene_info_via_entrez" =>
      \E resp \in {last.resp}, res \in {last.res} :
        /\ last.exc = None
        /\ res.some => DOMAIN res.details
                         = {"symbol", "geneid", "chromosome", "map_location", "description"}
        /\ (~resp.sok \/ resp.ids = <<>>)
             => /\ ~res.some
                /\ res.io = <<"fetch_gene_info_via_entrez", "GET esearch">>
        /\ ~resp.iok => ~res.some
        /\ (resp.sok /\ resp.ids # <<>> /\ resp.iok)
             => /\ res.some
                /\ res.details["geneid"] = resp.ids[1]
                /\ res.details["symbol"]
                     = (IF "name" \in DOMAIN resp.info THEN resp.info["name"] ELSE last.gene)
                /\ res.io = <<"fetch_gene_info_via_entrez", "GET esearch", "GET esummary">>

\* The identifier search succeeded with an empty id list: None, and no second
\* request.
C16_Witness ==
    /\ last.op = "fetch_gene_info_via_entrez"
    /\ last.resp.sok /\ last.resp.ids = <<>> /\ last.resp.iok
    /\ ~last.res.some
    /\ last.res.io = <<"fetch_gene_info_via_entrez", "GET esearch">>
    /\ last.exc = None

\* C17: the Entrez summary fetch never raises. It returns None, without any
\* request, for an identifier that is not an integer; None when the request
\* fails; None when the response has no summary field (or no uid, or an empty
\* summary); otherwise it returns the summary string.
C17_SummaryNeverRaises ==
    last.op = "fetch_summary_from_entrez" =>
      \E resp \in {last.resp}, res \in {last.res} :
        \E text \in {IF "summary" \in DOMAIN resp.info /\ resp.info["summary"] # ""
                     THEN resp.info["summary"]
                     ELSE IF "Summary" \in DOMAIN resp.info THEN resp.info["Summary"]
                     ELSE None} :
          /\ last.exc = None
          /\ last.gene \notin {"672", "999"}
               => res.val = None /\ res.io = <<"fetch_summary_from_entrez">>
          /\ ~resp.ok => res.val = None
          /\ resp.uids = <<>> => res.val = None
          /\ text \in {None, ""} => res.val = None
          /\ (last.gene \in {"672", "999"} /\ resp.ok /\ resp.uids # <<>>
                /\ text \notin {None, ""})
               => /\ res.val = text
                  /\ res.io = <<"fetch_summary_from_entrez", "GET esummary">>

\* The identifier "abc": None, and no request was sent.
C17_Witness ==
    /\ last.op = "fetch_summary_from_entrez" /\ last.gene = "abc"
    /\ last.resp.ok /\ last.resp.uids # <<>>
    /\ last.resp.info = SummaryDicts[2]
    /\ last.res.val = None
    /\ last.res.io = <<"fetch_summary_from_entrez">>

-----------------------------------------------------------------------------
(* One resolution against every outcome of the services: after at most one  *)
(* set on the store, get_gene_data is called once, each service it asks     *)
(* succeeding, finding nothing, failing at the transport level or answering *)
(* with a malformed payload, each write of the document succeeding or not.  *)

\* The portal: also unreachable, JSON under a wrong content type, a payload
\* that is not an object, a payload whose summary is the empty string.
PortalOutcomes ==
    PortalResps \cup
    { [net |-> FALSE, ctype |-> "", body |-> Undecodable],
      [net |-> TRUE, ctype |-> "text/html",
       body |-> JDict(<<Entry(Field("summary"), JStr("Portal summary"))>>)],
      [net |-> TRUE, ctype |-> "application/json", body |-> JList(<<>>)],
      [net |-> TRUE, ctype |-> "application/json",
       body |-> JDict(<<Entry(Field("summary"), JStr(""))>>)] }

\* The clinical-terms search: also a failed request, and the gene under a
\* symbol the service writes in lower case.
NcbiOutcomes ==
    NcbiResps \cup
    { [ok |-> FALSE, codes |-> <<>>, ef |-> JNull, displays |-> <<>>],
      [ok |-> TRUE, codes |-> <<"HGNC:2">>, ef |-> [m |-> ("GeneID" :> <<"672">>)],
       displays |-> << <<<<"a">>, "gene a">> >>] }

\* The identifier search: also a failed search, a failed summary request, a
\* summary without any field, and a summary whose name is in lower case.
EntrezOutcomes ==
    EntrezResps \cup
    { [sok |-> FALSE, ids |-> <<>>, iok |-> TRUE, info |-> EmptyDict],
      [sok |-> TRUE, ids |-> <<"672">>, iok |-> FALSE, info |-> EmptyDict],
      [sok |-> TRUE, ids |-> <<"672">>, iok |-> TRUE, info |-> EmptyDict],
      [sok |-> TRUE, ids |-> <<"672">>, iok |-> TRUE,
       info |-> ("name" :> <<"a">>) @@ ("description" :> "gene a")] }

\* The Entrez summary: also a response without a summary field.
SummOutcomes ==
    SummResps \cup {[ok |-> TRUE, uids |-> <<"672">>, info |-> EmptyDict]}

\* cache.set(gene, value) as the first operation on the store.
SetFirst(i, gene, value) ==
    /\ last.n = 0
    /\ Set(i, gene, value)

\* get_gene_data(gene, cache=i), once, against every outcome of the services
\* it asks and of its writes.
ResolveAny(i, gene) ==
    /\ last.op # "resolve"
    /\ i \in Instances => inst[i].live
    /\ \E po \in IF Asks(i, gene, DefaultEnv, "fetch_gene_from_genecards")
                 THEN PortalOutcomes ELSE {DefaultEnv.portal} :
         \E nc \in IF Asks(i, gene, [DefaultEnv EXCEPT !.portal = po],
                           "fetch_details_via_ncbi")
                   THEN NcbiOutcomes ELSE {DefaultEnv.ncbi} :
           \E en \in IF Asks(i, gene, [DefaultEnv EXCEPT !.portal = po, !.ncbi = nc],
                             "fetch_gene_info_via_entrez")
                     THEN EntrezOutcomes ELSE {DefaultEnv.entrez} :
             \E su \in IF Asks(i, gene,
                               [DefaultEnv EXCEPT !.portal = po, !.ncbi = nc, !.entrez = en],
                               "fetch_summary_from_entrez")
                       THEN SummOutcomes ELSE {DefaultEnv.summ} :
               \E env \in {[portal |-> po, ncbi |-> nc, entrez |-> en, summ |-> su]} :
                 \E wr \in WriteOutcomes(Writes(Run(i, gene, env, AllOK).c.io)) :
                   ResolveWith(i, gene, env, wr)

ResolveNext ==
    \/ \E i \in Callers, g \in Symbols, v \in FieldMaps : SetFirst(i, g, v)
    \/ \E i \in Callers \cup {NoCache}, g \in Symbols : ResolveAny(i, g)

SpecResolve == Init /\ [][ResolveNext]_vars

-----------------------------------------------------------------------------
(* C18: the errors that reach the caller of get_gene_data.                  *)

\* The last operation was get_gene_data and it went past the cache.
Missed == last.op = "resolve" /\ Called(last.io, "fetch_gene_from_genecards")

\* The services answered the last call so that nothing was found: no portal
\* summary, no exact match in pass 1, nothing from pass 2.
NothingFound(key) ==
    /\ Missed
    /\ NoPortalSummary(last.env, key)
    /\ ~Pass1Found(last.env, key)
    /\ ~Pass2Found(last.env, key)

\* The store get_gene_data(gene, cache=i) works on has a dict as its _data:
\* the document it was loaded from did not hold a JSON value other than an
\* object. (Such a document stays as it is: nothing can be written to it.)
StoreIsDict(i) == IF i \in Instances THEN inst[i].isdict ELSE doc.kind # "value"

\* The last call, one of get_gene_data, returned a record or raised
\* ValueError or GeneNotFoundError and nothing else: ValueError exactly for a
\* blank symbol, GeneNotFoundError exactly when it went past the cache and
\* nothing was found, and otherwise a record, which has a summary and a source
\* when get_gene_data built it.
OnlyTwoErrors ==
    \E key \in {Upper(Strip(last.gene))} :
      /\ last.outcome \in {"return", "ValueError", "GeneNotFoundError"}
      /\ last.outcome = "ValueError" <=> Blank(last.gene)
      /\ last.outcome = "GeneNotFoundError" <=> (~Blank(last.gene) /\ NothingFound(key))
      /\ last.outcome = "return" <=> last.ret # NoObj
      /\ (last.outcome = "return" /\ Missed)
           => {"summary", "source"} \subseteq DOMAIN heap[last.ret]

\* C18 as stated: whatever the services answer (a result, nothing, a login
\* page, a failed request, a payload of the wrong shape) and whatever the
\* document holds and whether it could be read and written or not,
\* get_gene_data returns a record or raises ValueError or GeneNotFoundError;
\* no other error reaches the caller.
C18_OnlyTwoErrors == last.op = "resolve" => OnlyTwoErrors

\* C18, the part of it the code keeps: the same for every call on a store
\* whose _data is a dict.
C18_OnlyTwoErrorsOnDict ==
    (last.op = "resolve" /\ StoreIsDict(last.inst)) => OnlyTwoErrors

\* The document holds a JSON value other than an object; get_gene_data of a
\* symbol that is not blank, with the store constructed on it or without a
\* store, stopped at cache.get and raised AttributeError.
C18_Witness ==
    /\ last.op = "resolve"
    /\ doc.kind = "value"
    /\ ~Blank(last.gene)
    /\ last.outcome = "AttributeError"
    /\ last.ret = NoObj
    /\ ~Missed

-----------------------------------------------------------------------------
(* C19: the derived addresses of a record.                                  *)

\* The records get_gene_data has built: the one the last call returned, the
\* ones the stores hold and the ones in the document. A record built by
\* get_gene_data carries a source tag; a dict put by an outside set need not.
Produced ==
    { rec \in ({heap[o] : o \in {last.ret} \ {NoObj}}
               \cup UNION {{heap[inst[i].data[k]] : k \in DOMAIN inst[i].data}
                           : i \in Instances}
               \cup {doc.data[k] : k \in DOMAIN doc.data})
      : "source" \in DOMAIN rec }

\* C19: every record built by get_gene_data, as returned, as held by a store
\* and as written to the document, enriched later or not, has a genecards_url
\* that is the GeneCards address with gene=<symbol of the record>, and has an
\* ncbi_url exactly when it has a geneid, the address then being
\* .../gene/<geneid>.
C19_DerivedUrls ==
    \A rec \in Produced :
      /\ rec["genecards_url"] # None
      /\ rec["genecards_url"] = GeneCardsUrl(rec["symbol"])
      /\ rec["ncbi_url"] # None <=> rec["geneid"] # None
      /\ rec["geneid"] # None => rec["ncbi_url"] = NcbiUrl(rec["geneid"])

\* get_gene_data(" a ") went past the cache, pass 1 matched gene A with
\* GeneID 672, and the record returned has both addresses.
C19_Witness ==
    /\ Missed
    /\ last.gene = <<" ", "a", " ">>
    /\ last.outcome = "return"
    /\ heap[last.ret]["symbol"] = <<"A">>
    /\ heap[last.ret]["geneid"] = "672"
    /\ heap[last.ret]["ncbi_url"] = "https://www.ncbi.nlm.nih.gov/gene/672"
    /\ heap[last.ret]["genecards_url"]
         = <<"https://www.genecards.org/cgi-bin/carddisp.pl?gene=", "A">>

-----------------------------------------------------------------------------
(* C20: the creation time of a cached record.                               *)

\* What the store consulted by get_gene_data(gene, cache=i) holds under key:
\* the value instance i holds, or without a cache the one in the document.
\* EmptyDict when there is none, or only a legacy entry. It is a record when
\* it is a dict.
CachedRecord(i, key) ==
    LET rec == IF i \in Instances
               THEN IF inst[i].live /\ key \in DOMAIN inst[i].data
                    THEN heap[inst[i].data[key]] ELSE EmptyDict
               ELSE IF doc.kind = "object" /\ key \in DOMAIN doc.data
                    THEN doc.data[key] ELSE EmptyDict
    IN  IF rec = EmptyDict \/ IsLegacy(rec) THEN EmptyDict ELSE rec

\* C20: whenever a store holds a record under a key, with the fetched_at it
\* got when it was created, a get_gene_data of that key at any later time,
\* whatever the Entrez summary service answers and whether or not the record
\* is enriched and written again, returns a record with that fetched_at and
\* leaves the store, and the document when it is rewritten, holding a record
\* with that fetched_at. (Holding in every reachable state, this carries over
\* any number of later calls.)
C20_FetchedAtStable ==
    \A i \in Callers \cup {NoCache}, gene \in Symbols :
      \E key \in {Upper(Strip(gene))} :
        \E old \in {CachedRecord(i, key)} :
          (~Blank(gene) /\ old # EmptyDict /\ IsDict(old)) =>
            \A su \in SummOutcomes, wr \in WriteOutcomes(1) :
              \E r \in {Run(i, gene, [DefaultEnv EXCEPT !.summ = su], wr)} :
                /\ r.outcome = "return"
                /\ r.c.heap[r.ret]["fetched_at"] = old["fetched_at"]
                /\ r.c.heap[r.c.data[key]]["fetched_at"] = old["fetched_at"]
                /\ (Called(r.c.io, "write") /\ ~Called(r.c.io, "write_failed"))
                     => r.c.doc.data[key]["fetched_at"] = old["fetched_at"]

\* A record created by get_gene_data at time 0 without an Entrez summary was
\* hit at time 1, enriched with the summary and stored again: it still has
\* fetched_at 0.
C20_Witness ==
    /\ last.op = "resolve"
    /\ prev.op = "resolve"
    /\ last.inst \in Instances
    /\ ~Missed
    /\ Called(last.io, "fetch_summary_from_entrez")
    /\ Called(last.io, "GeneCache.set")
    /\ now = 1
    /\ "source" \in DOMAIN heap[last.ret]
    /\ heap[last.ret]["entrez_summary"] = "Entrez summary"
    /\ heap[last.ret]["fetched_at"] = 0
    /\ heap[inst[last.inst].data[Upper(Strip(last.gene))]]["fetched_at"] = 0

-----------------------------------------------------------------------------
(* C21: the stamp of set.                                                   *)

\* The record store c holds under the key of gene.
StoredUnder(c, gene) == c.heap[c.data[Upper(gene)]]

\* C21 as stated: for every field mapping, one that carries a fetched_at
\* included, the record set stores has the time of the call as its
\* fetched_at, and the whole store is then in the document, however the
\* write ends.
C21_SetStampsNow ==
    \A i \in Callers, gene \in Symbols, value \in FieldMaps :
      (inst[i].live /\ inst[i].isdict) =>
        \A wr \in WriteOutcomes(1) :
          \E c \in {GeneCache_set(CtxOf(i, wr), gene, value)} :
            /\ StoredUnder(c, gene)["fetched_at"] = now
            /\ c.doc = [kind |-> "object", data |-> Dump(c.heap, c.data)]

\* C21, amended: the record set stores has every field of the mapping; its
\* fetched_at is the mapping's own when the mapping carries one and the time
\* of the call otherwise; the whole store is then in the document when the
\* write succeeds; when it fails the document is left as it was (open
\* failed) or truncated (the dump failed). The store is one whose _data is a
\* dict.
C21_SetStampsUnlessGiven ==
    \A i \in Callers, gene \in Symbols, value \in FieldMaps :
      (inst[i].live /\ inst[i].isdict) =>
        \A wr \in WriteOutcomes(1) :
          \E c \in {GeneCache_set(CtxOf(i, wr), gene, value)} :
            /\ HasFieldsOf(StoredUnder(c, gene), value)
            /\ StoredUnder(c, gene)["fetched_at"]
                 = (IF "fetched_at" \in DOMAIN value THEN value["fetched_at"] ELSE now)
            /\ c.doc = AfterWrite(Head(wr), doc,
                                  [kind |-> "object", data |-> Dump(c.heap, c.data)])

\* At time 1, set("a", v) with a mapping v whose fetched_at is 0 was written:
\* the record stored and the one in the document have fetched_at 0.
C21_Witness ==
    /\ JustSet("A")
    /\ now = 1
    /\ last.gene = <<"a">>
    /\ "fetched_at" \in DOMAIN last.value
    /\ Called(last.io, "write")
    /\ heap[inst["A"].data[<<"A">>]]["fetched_at"] = 0
    /\ doc.kind = "object"
    /\ doc.data[<<"A">>]["fetched_at"] = 0

-----------------------------------------------------------------------------
(* C22: the symbol of a record.                                             *)

\* C22 as stated: every record get_gene_data built, as returned, as held by
\* a store and as written to the document, has a symbol that is not empty
\* and is in upper case.
C22_SymbolUppercase ==
    \A rec \in Produced :
      /\ rec["symbol"] # <<>>
      /\ rec["symbol"] = Upper(rec["symbol"])

\* The symbol the services gave for the last call: the one of the exact match
\* of pass 1, else the name pass 2 found, else none.
UpstreamSymbol(key) ==
    IF Pass1Found(last.env, key)
    THEN fetch_details_via_ncbi(key, last.env.ncbi, <<>>).details["symbol"]
    ELSE IF Pass2Found(last.env, key) /\ "name" \in DOMAIN last.env.entrez.info
    THEN last.env.entrez.info["name"]
    ELSE NoSym

\* C22, amended: the record a cache miss builds, returns and stores has a
\* symbol that is not empty: the symbol as the service wrote it when pass 1
\* matched (it equals the key once uppercased but need not be in upper case
\* itself) or pass 2 gave a name (taken as it is), and the key (trimmed,
\* upper case) otherwise.
C22_SymbolAsUpstream ==
    (Missed /\ last.outcome = "return") =>
      \E key \in {Upper(Strip(last.gene))} :
        \E rec \in {heap[last.ret]} :
          /\ rec["symbol"] # <<>>
          /\ rec["symbol"] = (IF UpstreamSymbol(key) # NoSym THEN UpstreamSymbol(key)
                              ELSE key)
          /\ (Pass1Found(last.env, key) \/ UpstreamSymbol(key) = NoSym)
               => Upper(rec["symbol"]) = key
          /\ last.inst \in Instances
               => heap[inst[last.inst].data[key]]["symbol"] = rec["symbol"]
          /\ (Called(last.io, "write") /\ LastWriteOK(last.io))
               => doc.data[key]["symbol"] = rec["symbol"]

\* get_gene_data("A") went past the cache, pass 1 matched the row whose
\* symbol the service wrote as "a", and the record stored has the symbol "a".
C22_Witness ==
    /\ Missed
    /\ last.gene = <<"A">>
    /\ last.outcome = "return"
    /\ Called(last.io, "write")
    /\ heap[last.ret]["source"] = "ncbi"
    /\ heap[last.ret]["symbol"] = <<"a">>
    /\ doc.data[<<"A">>]["symbol"] = <<"a">>

-----------------------------------------------------------------------------
(* Two stores on one document: instances A and B are constructed on the     *)
(* same path and their operations come one after the other, each finished   *)
(* before the next starts. Every write succeeds.                            *)

MaxSharedOps == 3

SharedSymbols == { <<"a">>, <<"b">> }

SharedValues == { v \in FieldMaps : "fetched_at" \notin DOMAIN v }

\* cache_i = GeneCache(path)
SharedConstruct(i) ==
    /\ last.n < MaxSharedOps
    /\ \E c \in {GeneCache_init(Ctx(EmptyDict, AllOK), DEFAULT_CACHE_PATH)} :
         Finish(c, i, "construct", <<>>, EmptyDict, Outcome(c), NoObj, DefaultEnv)

\* cache_i.get(gene)
SharedGet(i, gene) ==
    /\ last.n < MaxSharedOps
    /\ inst[i].live
    /\ \E r \in {GeneCache_get(CtxOf(i, AllOK), gene)} :
         Finish(r.c, i, "get", gene, EmptyDict, Outcome(r.c), r.ret, DefaultEnv)

\* cache_i.set(gene, value)
SharedSet(i, gene, value) ==
    /\ last.n < MaxSharedOps
    /\ inst[i].live
    /\ \E c \in {GeneCache_set(CtxOf(i, AllOK), gene, value)} :
         Finish(c, i, "set", gene, value, Outcome(c), NoObj, DefaultEnv)

SharedNext ==
    \/ \E i \in Instances : SharedConstruct(i)
    \/ \E i \in Instances, g \in SharedSymbols : SharedGet(i, g)
    \/ \E i \in Instances, g \in SharedSymbols, v \in SharedValues : SharedSet(i, g, v)

SpecShared == Init /\ [][SharedNext]_vars

\* One instance set a key and then the other instance set another key.
SetAfterOtherSet ==
    /\ prev.op = "set" /\ prev.outcome = "return"
    /\ last.op = "set" /\ last.outcome = "return"
    /\ prev.inst # last.inst
    /\ Upper(prev.gene) # Upper(last.gene)

\* C23 as stated: with two instances on one document and their operations
\* one after the other, after one instance sets a key and the other then
\* sets another key, the document holds both records.
C23_NoLostUpdate ==
    SetAfterOtherSet =>
      /\ doc.kind = "object"
      /\ {Upper(prev.gene), Upper(last.gene)} \subseteq DOMAIN doc.data

\* C23, amended: a store reads the document only when it is constructed, and
\* every mutation writes the whole in-memory store of the instance over the
\* document. After one instance sets a key and the other then sets another
\* key, the document is the store of the second instance: it holds the first
\* record only if the second instance had it in memory. When the second
\* instance is constructed after the first one's set, its set keeps the
\* first record, unchanged, in the document.
C23_LastWriterWins ==
    /\ SetAfterOtherSet =>
         /\ doc = [kind |-> "object", data |-> Dump(heap, inst[last.inst].data)]
         /\ Upper(prev.gene) \in DOMAIN doc.data
              <=> Upper(prev.gene) \in DOMAIN inst[last.inst].data
    /\ (prev.op = "set" /\ prev.outcome = "return"
          /\ last.op = "construct" /\ prev.inst # last.inst) =>
         \A g \in SharedSymbols, v \in SharedValues :
           Upper(g) # Upper(prev.gene) =>
             \E c \in {GeneCache_set(CtxOf(last.inst, AllOK), g, v)} :
               /\ {Upper(prev.gene), Upper(g)} \subseteq DOMAIN c.doc.data
               /\ c.doc.data[Upper(prev.gene)] = doc.data[Upper(prev.gene)]

\* A and B were both constructed, A set "a" and B then set "b": the document
\* holds B's record and no longer A's, which A still has in memory.
C23_Witness ==
    /\ SetAfterOtherSet
    /\ prev.inst = "A" /\ prev.gene = <<"a">>
    /\ last.inst = "B" /\ last.gene = <<"b">>
    /\ <<"A">> \in DOMAIN inst["A"].data
    /\ doc.kind = "object"
    /\ <<"B">> \in DOMAIN doc.data
    /\ <<"A">> \notin DOMAIN doc.data

-----------------------------------------------------------------------------
(* The response of the Master Mind game: src/day05/logic.py.                *)
(* A response is a string, modelled as the sequence of its characters.      *)

MaxDigits == 2

\* The smallest secret and guess tried below zero.
MinValue == -11

Min(a, b) == IF a <= b THEN a ELSE b

\* ch * n: n times the character, the empty string when n is not positive.
Repeat(ch, n) == [k \in 1..n |-> ch]

\* Lines 2-5: the counters before the loop.
calc_start ==
    [exact_match_location |-> 0,
     hist_secret |-> [d \in 0..9 |-> 0],
     hist_guess |-> [d \in 0..9 |-> 0]]

\* Lines 6-11: the loop over the digits, from the last one; k iterations are
\* left.
RECURSIVE calc_digits(_, _, _, _)
calc_digits(secret, guess, k, st) ==
    IF k <= 0 THEN st
    ELSE calc_digits(secret \div 10, guess \div 10, k - 1,
             [exact_match_location |->
                  st.exact_match_location + (IF secret % 10 = guess % 10 THEN 1 ELSE 0),
              hist_secret |-> [st.hist_secret EXCEPT ![secret % 10] = @ + 1],
              hist_guess |-> [st.hist_guess EXCEPT ![guess % 10] = @ + 1]])

\* Lines 13-14: the sum over the ten digits of the smaller count, from digit i
\* on.
RECURSIVE value_in_both(_, _, _)
value_in_both(hist_secret, hist_guess, i) ==
    IF i > 9 THEN 0
    ELSE Min(hist_secret[i], hist_guess[i]) + value_in_both(hist_secret, hist_guess, i + 1)

\* calc_response without line 17: the exact matches are counted among the
\* digits present in both as well.
calc_response_counted_twice(secret, guess, number_of_digits) ==
    LET st == calc_digits(secret, guess, number_of_digits, calc_start)
        value_in_both_match == value_in_both(st.hist_secret, st.hist_guess, 0)
    IN  Repeat("*", st.exact_match_location) \o Repeat("+", value_in_both_match)

\* calc_response (lines 1-19).
calc_response(secret, guess, number_of_digits) ==
    LET st == calc_digits(secret, guess, number_of_digits, calc_start)
        value_in_both_match ==
            value_in_both(st.hist_secret, st.hist_guess, 0) - st.exact_match_location
    IN  Repeat("*", st.exact_match_location) \o Repeat("+", value_in_both_match)

\* Secrets and guesses: every number of up to MaxDigits digits, and some
\* below zero.
Values == MinValue..(10 ^ MaxDigits - 1)

DigitCounts == 0..MaxDigits

\* The calls of test_master_mind_logic.py, with four digits, and some of the
\* calls of test_exact_match.
TestCalls ==
    { <<10, 5555>>, <<9999, 8888>>, <<6789, 1234>>,
      <<1268, 6218>>, <<268, 6208>>, <<2, 6211>>, <<2, 6882>>,
      <<0, 0>>, <<7, 7>>, <<1234, 1234>>, <<1221, 1221>>, <<9999, 9999>> }

MastermindInit ==
    /\ doc = [kind |-> "missing", data |-> EmptyDict]
    /\ heap = EmptyDict
    /\ inst = [i \in Instances |-> NoInstance]
    /\ now = 0
    /\ prev = [op |-> "none"]
    /\ last = [op |-> "none", secret |-> 0, guess |-> 0, number_of_digits |-> 0,
               response |-> <<>>]

\* calc_response(secret, guess, number_of_digits) is called and its response
\* recorded.
Respond(secret, guess, number_of_digits) ==
    /\ last' = [op |-> "calc_response", secret |-> secret, guess |-> guess,
                number_of_digits |-> number_of_digits,
                response |-> calc_response(secret, guess, number_of_digits)]
    /\ prev' = [op |-> last.op]
    /\ UNCHANGED <<doc, heap, inst, now>>

\* A call with a secret and a guess of the ranges above.
CalcAny ==
    /\ last.op = "none"
    /\ \E secret \in Values, guess \in Values, n \in DigitCounts : Respond(secret, guess, n)

\* A call of the tests.
CalcTest ==
    /\ last.op = "none"
    /\ \E t \in TestCalls : Respond(t[1], t[2], 4)

MastermindNext == CalcAny \/ CalcTest

SpecMastermind == MastermindInit /\ [][MastermindNext]_vars

\* The number of characters ch in the response r.
CountOf(r, ch) == Cardinality({k \in 1..Len(r) : r[k] = ch})

\* The responses test_no_match and test_partial_match expect.
TestResponses ==
    (last.op = "calc_response" /\ last.number_of_digits = 4) =>
      /\ (last.secret = 1268 /\ last.guess = 6218) => last.response = <<"*", "*", "+", "+">>
      /\ (last.secret = 268 /\ last.guess = 6208) => last.response = <<"*", "*", "+", "+">>
      /\ (last.secret = 2 /\ last.guess = 6211) => last.response = <<"+">>
      /\ (last.secret = 2 /\ last.guess = 6882) => last.response = <<"*">>
      /\ (last.secret = 10 /\ last.guess = 5555) => last.response = <<>>

\* C24: for every number of digits n and every i in 0 .. 10^n - 1,
\* calc_response(i, i, n) is n times '*' and no '+'; and for every secret and
\* guess the response has at most n characters, each '*' or '+', every '*'
\* before every '+' (the number of '+' is the count of line 17, which is
\* never negative); the calls of the tests give the responses the tests
\* expect.
C24_ResponseShape ==
    last.op = "calc_response" =>
      \E r \in {last.response} : \E n \in {last.number_of_digits} :
        /\ Len(r) <= n
        /\ \A k \in 1..Len(r) : r[k] \in {"*", "+"}
        /\ \A j \in 1..Len(r), k \in 1..Len(r) : (r[j] = "*" /\ r[k] = "+") => j < k
        /\ \E st \in {calc_digits(last.secret, last.guess, n, calc_start)} :
             /\ value_in_both(st.hist_secret, st.hist_guess, 0) - st.exact_match_location >= 0
             /\ CountOf(r, "+")
                  = value_in_both(st.hist_secret, st.hist_guess, 0) - st.exact_match_location
             /\ CountOf(r, "*") = st.exact_match_location
        /\ (last.secret = last.guess /\ last.secret \in 0..(10 ^ n - 1))
             => r = Repeat("*", n)
        /\ TestResponses

\* calc_response(57, 57, 2) gave "**".
C24_Witness ==
    /\ last.op = "calc_response"
    /\ last.secret = 57 /\ last.guess = 57 /\ last.number_of_digits = 2
    /\ last.response = <<"*", "*">>

-----------------------------------------------------------------------------
(* C25: the enrichment of a cache hit.                                      *)

\* The record has a geneid and lacks an Entrez summary.
EnrichmentDue(rec) ==
    Truthy(DictGet(rec, "geneid")) /\ DictGet(rec, "entrez_summary") = None

\* Whenever a store holds a record under a key, get_gene_data of that key
\* returns without asking the portal or the lookups, and asks for the Entrez
\* summary exactly when the record has a geneid and lacks entrez_summary. If
\* a summary comes, the record returned and the one the store holds are the
\* cached record with exactly that entrez_summary added, and the store is
\* written once: the document is then the whole store (always, if `always`;
\* otherwise when the write succeeds, and as a failed write leaves it when
\* it does not). If none comes (the request failed, the response has no
\* summary, or no request was due) nothing is written, the document and the
\* store are as before and the cached record is returned unchanged.
HitEnrichment(always) ==
    \A i \in Callers \cup {NoCache}, gene \in Symbols :
      \E key \in {Upper(Strip(gene))} :
        \E old \in {CachedRecord(i, key)} :
          (~Blank(gene) /\ old # EmptyDict) =>
            \A su \in SummOutcomes, wr \in WriteOutcomes(1) :
              \E r \in {Run(i, gene, [DefaultEnv EXCEPT !.summ = su], wr)} :
                \E got \in {IF EnrichmentDue(old)
                            THEN fetch_summary_from_entrez(old["geneid"], su, <<>>).val
                            ELSE None} :
                  /\ r.outcome = "return"
                  /\ \A fn \in Lookups : ~Called(r.c.io, fn)
                  /\ Called(r.c.io, "fetch_summary_from_entrez") <=> EnrichmentDue(old)
                  /\ IF got # None
                     THEN /\ r.c.heap[r.ret] = Merge(old, "entrez_summary" :> got)
                          /\ r.c.heap[r.c.data[key]] = r.c.heap[r.ret]
                          /\ Count(r.c.io, "GeneCache.set") = 1
                          /\ Count(r.c.io, "write") + Count(r.c.io, "write_failed") = 1
                          /\ \E written \in {[kind |-> "object",
                                              data |-> Dump(r.c.heap, r.c.data)]} :
                               r.c.doc = IF always THEN written
                                         ELSE AfterWrite(Head(wr), doc, written)
                     ELSE /\ r.c.heap[r.ret] = old
                          /\ r.c.heap[r.c.data[key]] = old
                          /\ ~Called(r.c.io, "GeneCache.set")
                          /\ ~Called(r.c.io, "write") /\ ~Called(r.c.io, "write_failed")
                          /\ r.c.doc = doc

\* C25 as stated: on a cache hit the Entrez summary is asked for only if the
\* cached record has a geneid and lacks entrez_summary; if a summary comes the
\* record gains exactly that entrez_summary and is re-persisted: the document
\* then holds the store with the enriched record; if none comes
\* get_gene_data does not raise, writes nothing and returns the cached record
\* unchanged.
C25_HitRepersists == HitEnrichment(TRUE)

\* C25, amended: the same, but the enriched record is in the document only
\* when the one write the hit makes succeeds; a failed write is swallowed:
\* get_gene_data still returns the enriched record and the store holds it,
\* and the document is as it was (open failed) or truncated (the dump
\* failed).
C25_HitEnrichment == HitEnrichment(FALSE)

\* A record with geneid 672 and no entrez_summary was put in store A and
\* written; get_gene_data hit it, got the Entrez summary and stored the
\* enriched record, and the write failed: the record returned and the one in
\* the store have the summary, the one in the document has not.
C25_Witness ==
    /\ last.op = "resolve"
    /\ last.inst = "A"
    /\ prev.op = "set"
    /\ ~Missed
    /\ Called(last.io, "fetch_summary_from_entrez")
    /\ Called(last.io, "GeneCache.set")
    /\ Called(last.io, "write_failed")
    /\ last.outcome = "return"
    /\ heap[last.ret]["geneid"] = "672"
    /\ heap[last.ret]["entrez_summary"] = "Entrez summary"
    /\ heap[inst["A"].data[<<"A">>]] = heap[last.ret]
    /\ doc.kind = "object"
    /\ "entrez_summary" \notin DOMAIN doc.data[<<"A">>]

-----------------------------------------------------------------------------
(* C26: the resolution when the portal gives a summary.                     *)

\* The summary extracted from the portal's answer to the last call: None when
\* the adapter raised or nothing was extracted.
PortalSummary(key) ==
    Only({ IF gc.raised THEN None ELSE extract_summary(gc.val, key)
           : gc \in {fetch_gene_from_genecards(last.env.portal, <<>>)} })

\* The last call went past the cache and a (non-empty) summary was extracted
\* from the portal's payload.
MissWithSummary(key) == Missed /\ Truthy(PortalSummary(key))

\* C26: when the portal adapter succeeds and a non-empty summary is
\* extracted, pass 1 is still called, pass 2 is called exactly when pass 1
\* reported not-found, a record is returned whose summary is the portal
\* summary whatever description the details carry, and whose source is
\* "genecards" when pass 1 found the gene and "entrez" when pass 1 did not
\* and pass 2 did.
C26_PortalSummaryFirst ==
    \E key \in {Upper(Strip(last.gene))} :
      MissWithSummary(key) =>
        /\ Count(last.io, "fetch_details_via_ncbi") = 1
        /\ Count(last.io, "fetch_gene_info_via_entrez")
             = (IF Pass1Found(last.env, key) THEN 0 ELSE 1)
        /\ last.outcome = "return"
        /\ heap[last.ret]["summary"] = PortalSummary(key)
        /\ Pass1Found(last.env, key) => heap[last.ret]["source"] = "genecards"
        /\ (~Pass1Found(last.env, key) /\ Pass2Found(last.env, key))
             => heap[last.ret]["source"] = "entrez"

\* The portal gave "Portal summary", pass 1 did not find the gene, pass 2
\* did, with the description "gene A": the record is tagged "entrez" and its
\* summary is the portal's.
C26_Witness ==
    /\ Missed
    /\ last.outcome = "return"
    /\ Called(last.io, "fetch_details_via_ncbi")
    /\ Called(last.io, "fetch_gene_info_via_entrez")
    /\ DictGet(last.env.entrez.info, "description") = "gene A"
    /\ heap[last.ret]["source"] = "entrez"
    /\ heap[last.ret]["summary"] = "Portal summary"
    /\ heap[last.ret]["geneid"] = "672"

-----------------------------------------------------------------------------
(* C27: the order of the steps of a resolution.                             *)

\* The steps of a resolution, in the order the claim gives them.
StepOrder ==
    <<"GeneCache.get", "fetch_gene_from_genecards", "fetch_details_via_ncbi",
      "fetch_gene_info_via_entrez", "fetch_summary_from_entrez", "GeneCache.set">>

StepNames == {StepOrder[k] : k \in 1..Len(StepOrder)}

Rank(step) == CHOOSE k \in 1..Len(StepOrder) : StepOrder[k] = step

IsStep(e) == e \in StepNames

\* The steps of the trace io, in the order they were taken.
Steps(io) == SelectSeq(io, IsStep)

\* Each step at most once and in the order of StepOrder.
StrictlyOrdered(steps) ==
    \A j \in 1..Len(steps), k \in 1..Len(steps) :
      j < k => Rank(steps[j]) < Rank(steps[k])

\* C27 as stated: in a resolution that goes past the cache the steps are
\* taken in the order cache get, portal, pass 1, pass 2, Entrez summary,
\* cache set, each at most once; pass 2 only when pass 1 reported not-found;
\* and a cache hit calls neither the portal nor a lookup.
C27_StrictOrder ==
    last.op = "resolve" =>
      \E key \in {Upper(Strip(last.gene))} :
        /\ Missed => /\ StrictlyOrdered(Steps(last.io))
                     /\ Pass1Found(last.env, key)
                          => ~Called(last.io, "fetch_gene_info_via_entrez")
        /\ ~Missed => \A fn \in Lookups : ~Called(last.io, fn)

\* C27, amended: a resolution that goes past the cache takes these steps and
\* no other, in this order: cache get, portal, pass 1, pass 2 exactly when
\* pass 1 reported not-found, and, unless nothing was found, the Entrez
\* summary exactly when the details carry a geneid, one cache set, and a
\* second cache get that reads the stored record back to return it. A cache
\* hit takes a cache get, then the Entrez summary and a cache set when the
\* enrichment is due and succeeds, and calls neither the portal nor a lookup.
C27_OrderWithReadBack ==
    (last.op = "resolve" /\ ~Blank(last.gene)) =>
      \E key \in {Upper(Strip(last.gene))} :
        IF Missed
        THEN Steps(last.io)
               = <<"GeneCache.get", "fetch_gene_from_genecards", "fetch_details_via_ncbi">>
                 \o (IF Pass1Found(last.env, key) THEN <<>>
                     ELSE <<"fetch_gene_info_via_entrez">>)
                 \o (IF last.outcome # "return" THEN <<>>
                     ELSE (IF Truthy(heap[last.ret]["geneid"])
                           THEN <<"fetch_summary_from_entrez">> ELSE <<>>)
                          \o <<"GeneCache.set", "GeneCache.get">>)
        ELSE Steps(last.io) \in
               { <<"GeneCache.get">>,
                 <<"GeneCache.get", "fetch_summary_from_entrez">>,
                 <<"GeneCache.get", "fetch_summary_from_entrez", "GeneCache.set">> }

\* A resolution that went through every step: the portal raised, pass 1 found
\* nothing, pass 2 found the gene, the Entrez summary was fetched, the record
\* was stored and read back.
C27_Witness ==
    /\ last.op = "resolve"
    /\ last.outcome = "return"
    /\ Steps(last.io)
         = <<"GeneCache.get", "fetch_gene_from_genecards", "fetch_details_via_ncbi",
             "fetch_gene_info_via_entrez", "fetch_summary_from_entrez",
             "GeneCache.set", "GeneCache.get">>

-----------------------------------------------------------------------------
(* C28: what a resolution may do to the records of the cache.               *)

\* The records of the store get_gene_data(gene, cache=i) works on, by key:
\* those instance i holds, or without a cache those of the document, from
\* which the default store is loaded and to which it is written.
RecordsOf(i, h, stores, d) ==
    IF i \in Instances THEN Dump(h, stores[i].data)
    ELSE IF d.kind = "object" THEN d.data
    ELSE EmptyDict

\* From the records before to the records after, a call of get_gene_data with
\* the normalized key `key` and the given outcome has kept to its frame.
Framed(before, after, key, outcome) ==
    /\ \A k \in (DOMAIN before \cup DOMAIN after) \ {key} :
         /\ k \in DOMAIN before
         /\ k \in DOMAIN after
         /\ after[k] = before[k]
    /\ (key \notin DOMAIN before /\ key \in DOMAIN after) => outcome = "return"
    /\ (key \in DOMAIN before /\ key \notin DOMAIN after) => IsLegacy(before[key])
    /\ (key \in DOMAIN before /\ key \in DOMAIN after /\ after[key] # before[key]) =>
         \/ IsLegacy(before[key]) /\ outcome = "return"
         \/ /\ DictGet(before[key], "entrez_summary") = None
            /\ DictGet(after[key], "entrez_summary") # None
            /\ after[key] = Merge(before[key],
                                  "entrez_summary" :> after[key]["entrez_summary"])

\* A call without a cache made a write that failed after open() had truncated
\* the document: the default store held its records in memory until the call
\* was over, and the document it leaves holds none that can be read.
CutShort(i, io, d) == i = NoCache /\ Called(io, "write_failed") /\ d = Truncated

\* A step that is a call of get_gene_data(s) leaves every record under a key
\* other than the normalized key of s as it was (none created, changed or
\* removed); under that key a record appears only when the call returns a
\* record, an existing record changes only by gaining an entrez_summary it
\* lacked (or, when legacy-shaped, by being replaced by the record of a
\* successful resolution), and a record disappears only when it was
\* legacy-shaped. The stores of the other instances are not touched. The
\* records are those of the store the call works on; for the default store
\* they are read from the document (always, if `always`; otherwise unless a
\* failed write has cut it short).
ResolveFrame(always) ==
    (last'.op = "resolve" /\ last' # last) =>
      /\ \/ ~always /\ CutShort(last'.inst, last'.io, doc')
         \/ Framed(RecordsOf(last'.inst, heap, inst, doc),
                   RecordsOf(last'.inst, heap', inst', doc'),
                   Upper(Strip(last'.gene)), last'.outcome)
      /\ \A j \in Instances \ {last'.inst} :
           /\ inst'[j] = inst[j]
           /\ inst[j].live => Dump(heap', inst'[j].data) = Dump(heap, inst[j].data)

\* C28 as stated: a call of get_gene_data(s) never creates, changes or
\* removes a cache record under a key other than the normalized key of s;
\* under that key a record is created only when the resolution succeeds, is
\* changed only by filling in entrez_summary and is removed only when it is
\* legacy-shaped.
C28_ResolveTouchesOneKey == [][ResolveFrame(TRUE)]_vars

\* C28, amended: the same, except that a call without a cache whose write
\* fails after the document was opened for writing leaves the document
\* truncated: every record it held, under whatever key, is gone from it.
C28_ResolveFrame == [][ResolveFrame(FALSE)]_vars

\* Store A held a record under the key " " and a legacy entry under "A";
\* get_gene_data("a") found nothing: the entry under "A" is gone, the record
\* under " " is still there.
C28_Witness ==
    /\ last.op = "resolve"
    /\ last.inst = "A"
    /\ last.gene = <<"a">>
    /\ last.outcome = "GeneNotFoundError"
    /\ Called(last.io, "write")
    /\ prev.op = "set"
    /\ prev.gene = <<" ">>
    /\ DOMAIN inst["A"].data = {<<" ">>}
    /\ doc.kind = "object"
    /\ DOMAIN doc.data = {<<" ">>}

-----------------------------------------------------------------------------
(* Summary extraction over portal payloads: lines 315-336 on their own.     *)

CandidateNames == <<"summary", "GeneCards Summary", "description", "function">>

\* What a payload may hold under a field name: nothing, a string, a number.
FieldShapes == {"absent", "str", "num"}

\* The candidate that holds the fields as sh says: the string under the name
\* n is "text of n".
CandidateOf(sh) ==
    JDict(SelectSeq([k \in 1..Len(CandidateNames) |->
                        Entry(Field(CandidateNames[k]),
                              IF sh[k] = "str" THEN JStr("text of " \o CandidateNames[k])
                              ELSE JNum)],
                    LAMBDA e : \E k \in 1..Len(CandidateNames) :
                                  e.k = Field(CandidateNames[k]) /\ sh[k] # "absent"))

Candidates == { CandidateOf(sh) : sh \in [1..Len(CandidateNames) -> FieldShapes] }

\* The entries a payload is made of: a top-level summary (a string, the empty
\* string or a number), an entry under the gene asked for (a candidate or a
\* string), an entry under another gene.
TopEntries ==
    { Entry(Field("summary"), v) : v \in {JStr("Top summary"), JStr(""), JNum} }

KeyEntries ==
    { Entry(GeneKey(<<"A">>), v) : v \in Candidates \cup {JStr("not a mapping")} }

OtherEntries ==
    { Entry(GeneKey(<<"B">>), v) :
        v \in { JDict(<<Entry(Field("description"), JStr("gene B"))>>), JNum } }

\* The payloads: a value that is not an object, and the objects made of at
\* most one entry of each kind, in every order.
Payloads ==
    { JNull, JList(<<>>), JStr("login page"), JDict(<<>>) }
    \cup { JDict(<<e>>) : e \in TopEntries \cup KeyEntries \cup OtherEntries }
    \cup { JDict(<<e, f>>) : e \in TopEntries, f \in KeyEntries \cup OtherEntries }
    \cup { JDict(<<f, e>>) : e \in TopEntries, f \in KeyEntries \cup OtherEntries }
    \cup { JDict(<<e, f>>) : e \in OtherEntries, f \in KeyEntries }
    \cup { JDict(<<f, e>>) : e \in OtherEntries, f \in KeyEntries }
    \cup { JDict(<<o, t, k>>) : o \in OtherEntries, t \in TopEntries, k \in KeyEntries }

\* The extraction of lines 315-336 is applied to the payload gc the portal
\* adapter returned for the gene A.
Extract ==
    /\ last.op = "none"
    /\ UNCHANGED <<doc, heap, inst, now>>
    /\ \E gc \in Payloads :
         Record("extract_summary", <<"A">>, gc,
                [val |-> extract_summary(gc, <<"A">>)], None)

ExtractNext == Extract

SpecExtract == AdapterInit /\ [][ExtractNext]_vars

\* The value of the top-level summary field of gc when it is a string.
TopSummary(gc) ==
    IF gc.t = "dict" /\ HasKey(gc, Field("summary")) /\ Lookup(gc, Field("summary")).t = "str"
    THEN Lookup(gc, Field("summary")).s ELSE None

\* The nested candidate of gc: the entry under the key, else the first value.
NestedCandidate(gc, key) ==
    IF HasKey(gc, GeneKey(key)) THEN Lookup(gc, GeneKey(key))
    ELSE IF gc.items # <<>> THEN gc.items[1].v
    ELSE JNull

\* The field of name CandidateNames[k] is in cand and is a string.
StringField(cand, k) ==
    /\ HasKey(cand, Field(CandidateNames[k]))
    /\ Lookup(cand, Field(CandidateNames[k])).t = "str"

\* C29: the extraction returns the top-level summary field when it is a
\* string; otherwise, with the nested candidate (the entry under the key, else
\* the first value of the payload), the first of summary, GeneCards Summary,
\* description, function that is in the candidate and is a string; and
\* nothing when the payload is not a mapping, the candidate is not a mapping
\* or it has no such string field.
C29_ExtractionOrder ==
    last.op = "extract_summary" =>
      \E gc \in {last.resp} : \E val \in {last.res.val} :
        IF gc.t # "dict" THEN val = None
        ELSE IF TopSummary(gc) # None THEN val = TopSummary(gc)
        ELSE \E cand \in {NestedCandidate(gc, last.gene)} :
               IF cand.t # "dict" THEN val = None
               ELSE IF \A k \in 1..Len(CandidateNames) : ~StringField(cand, k)
               THEN val = None
               ELSE \E k \in 1..Len(CandidateNames) :
                      /\ StringField(cand, k)
                      /\ \A j \in 1..(k - 1) : ~StringField(cand, j)
                      /\ val = Lookup(cand, Field(CandidateNames[k])).s

\* The payload has a top-level summary that is a number, then the entry of
\* the gene, whose summary is a number too, with a description and a
\* function: the description is extracted.
C29_Witness ==
    /\ last.op = "extract_summary"
    /\ last.resp.t = "dict"
    /\ Len(last.resp.items) = 2
    /\ last.resp.items[1] = Entry(Field("summary"), JNum)
    /\ last.resp.items[2].k = GeneKey(<<"A">>)
    /\ last.resp.items[2].v = CandidateOf(<<"num", "absent", "str", "str">>)
    /\ last.res.val = "text of description"

-----------------------------------------------------------------------------
(* C30: a portal summary and nothing else.                                  *)

\* C30: when a (non-empty) summary was extracted from the portal's payload,
\* pass 1 reported not-found and pass 2 returned nothing, get_gene_data does
\* not raise: it stores and returns a record with source "genecards", the key
\* as symbol, the portal summary as summary, and no geneid, chromosome,
\* map_location, ncbi_url or entrez_summary, and the Entrez summary is not
\* asked for.
C30_PortalOnlyRecord ==
    \E key \in {Upper(Strip(last.gene))} :
      (MissWithSummary(key) /\ ~Pass1Found(last.env, key) /\ ~Pass2Found(last.env, key)) =>
        /\ last.outcome = "return"
        /\ ~Called(last.io, "fetch_summary_from_entrez")
        /\ Count(last.io, "GeneCache.set") = 1
        /\ \E rec \in {heap[last.ret]} :
             /\ rec["source"] = "genecards"
             /\ rec["symbol"] = key
             /\ rec["summary"] = PortalSummary(key)
             /\ \A f \in {"geneid", "chromosome", "map_location", "ncbi_url",
                          "entrez_summary"} : rec[f] = None
             /\ last.inst \in Instances => heap[inst[last.inst].data[key]] = rec
             /\ LastWriteOK(last.io) => doc.data[key] = rec

\* get_gene_data(" a "): the portal gave "Portal summary" under a wrong
\* content type, the clinical-terms request failed, the identifier search
\* failed: the record tagged "genecards" was written and returned.
C30_Witness ==
    /\ Missed
    /\ last.gene = <<" ", "a", " ">>
    /\ last.env.portal.ctype = "text/html"
    /\ ~last.env.ncbi.ok
    /\ ~last.env.entrez.sok
    /\ last.outcome = "return"
    /\ Called(last.io, "write")
    /\ heap[last.ret]["source"] = "genecards"
    /\ heap[last.ret]["summary"] = "Portal summary"
    /\ heap[last.ret]["symbol"] = <<"A">>
    /\ heap[last.ret]["geneid"] = None

====
